---- MODULE Spec2Model ----
(***************************************************************************)
(* A model of python-extended-stats: the metric analyzers of               *)
(* src/python_ext_stats/metrics and the orchestrator ExtPythonStats.       *)
(*                                                                         *)
(* A parsed file is a tree of ast nodes.  A node is a record with a field  *)
(* kind (the node's class) and the fields of that class that the analyzers *)
(* read; iter_child_nodes lists a node's children in field order and       *)
(* ast_walk yields the nodes breadth first, as ast.walk does.              *)
(*                                                                         *)
(* Every analyzer method is a static function of its arguments, so each    *)
(* method is an operator, and an action that applies it to the inputs held *)
(* in the state and stores what it returned in result.                     *)
(***************************************************************************)
EXTENDS Integers, Sequences, FiniteSets, TLC

VARIABLES
    parsed_py_files,    \* ExtPythonStats.parsed_py_files: one tree per file
    py_files,           \* ExtPythonStats.py_files: the paths of the source files
    disk,               \* the file system: path -> the file under it
    hash_seed,          \* the process's string hashing: the order sets list in
    op,                 \* the method that ran last ("init" before the first)
    result,             \* what that method returned
    all_files,          \* ExtPythonStats.all_files: the paths of all files
    clock,              \* what time.time() returns
    reports,            \* the dicts report() has returned, oldest first
    value_calls,        \* the value() calls made: analyzer and returned dict
    written             \* the report files print() has written, oldest first

vars == <<parsed_py_files, py_files, disk, hash_seed, op, result, all_files, clock,
          reports, value_calls, written>>

\* The state around a method that is run on its own, outside report().
NoReport ==
    all_files = <<>> /\ clock = 0 /\ reports = <<>> /\ value_calls = <<>> /\ written = <<>>

(***************************************************************************)
(* Bounds of the checked inputs.                                           *)
(***************************************************************************)
MaxClasses == 4         \* classes declared in a repository
MaxFiles == 2           \* parsed files in a repository
MaxBases == 2           \* bases of a class, in the inputs that vary them
MaxCalls == 2           \* call expressions in a class body
MaxStmts == 2           \* statements in a function body
MaxMethods == 3         \* methods in a class body
MaxReports == 2         \* reports made of a repository
MaxElapsed == 1         \* ticks of the clock while a report is made

(***************************************************************************)
(* Sequence helpers.                                                       *)
(***************************************************************************)
Range(s) == {s[i] : i \in DOMAIN s}

RECURSIVE Flatten(_)
Flatten(ss) == IF ss = <<>> THEN <<>> ELSE Head(ss) \o Flatten(Tail(ss))

MaxOf(S, default) ==
    IF S = {} THEN default
    ELSE CHOOSE m \in S : \A x \in S : x <= m

RECURSIVE Reverse(_)
Reverse(s) == IF s = <<>> THEN <<>> ELSE Append(Reverse(Tail(s)), Head(s))

SeqsUpTo(S, n) == UNION {[1..k -> S] : k \in 0..n}

(***************************************************************************)
(* Python numbers.  A value that may be a float is held as the fraction    *)
(* num / den it stands for; two fractions are the same number when they    *)
(* cross-multiply equal, and the ints 0 and 1 are Number(0) and Number(1). *)
(* A division by zero returns the exception instead.                       *)
(***************************************************************************)
Number(n) == [num |-> n, den |-> 1]

ZeroDivisionError == [kind |-> "ZeroDivisionError"]

IsNumber(v) == DOMAIN v = {"num", "den"}

\* a / b
TrueDiv(a, b) == IF b = 0 THEN ZeroDivisionError ELSE [num |-> a, den |-> b]

\* v == n, for a number v and an int n
NumEq(v, n) == IsNumber(v) /\ v.num = n * v.den

\* str.startswith("_") on the identifiers of the inputs.
startswith_underscore(name) ==
    name \in {"_", "__init__", "_private", "_a", "_b", "_heart", "_test"}

(***************************************************************************)
(* ast nodes.                                                              *)
(***************************************************************************)
\* Python's None.
None == [kind |-> "None"]

\* The node with one more field set.  A node holds the fields an input sets;
\* a field it does not hold has its empty value, None or [].
SetField(node, field, value) ==
    [x \in DOMAIN node \cup {field} |-> IF x = field THEN value ELSE node[x]]

GetField(node, field, default) == IF field \in DOMAIN node THEN node[field] ELSE default

\* A field that holds a node or None, as the list of the nodes it holds.
OptNode(value) == IF value = None THEN <<>> ELSE <<value>>

decorator_list(node) == GetField(node, "decorator_list", <<>>)
returns(node) == GetField(node, "returns", None)
annotation(arg) == GetField(arg, "annotation", None)

Name(id) == [kind |-> "Name", id |-> id]
Attribute(value, attr) == [kind |-> "Attribute", value |-> value, attr |-> attr]
Call(func, args) == [kind |-> "Call", func |-> func, args |-> args]
Subscript(value) == [kind |-> "Subscript", value |-> value]
Pass == [kind |-> "Pass"]
Expr(value) == [kind |-> "Expr", value |-> value]
Assign(targets, value) == [kind |-> "Assign", targets |-> targets, value |-> value]
AnnAssign(target, type) ==
    [kind |-> "AnnAssign", target |-> target, annotation |-> type]
\* A constant whose value is a str, and one whose value is an int.
Str(s) == [kind |-> "Constant", value |-> [str |-> s]]
Num(n) == [kind |-> "Constant", value |-> [int |-> n]]
Tuple(elts) == [kind |-> "Tuple", elts |-> elts]
Alias(name) == [kind |-> "alias", name |-> name]
Import(names) == [kind |-> "Import", names |-> names]
ImportFrom(module, names) == [kind |-> "ImportFrom", module |-> module, names |-> names]
Arg(arg) == [kind |-> "arg", arg |-> arg]
Arguments(args) == [kind |-> "arguments", args |-> args]
FunctionDef(name, args, body) ==
    [kind |-> "FunctionDef", name |-> name, args |-> Arguments(args), body |-> body]
AsyncFunctionDef(name, args, body) ==
    [kind |-> "AsyncFunctionDef", name |-> name, args |-> Arguments(args),
     body |-> body]
If(test, body, orelse) ==
    [kind |-> "If", test |-> test, body |-> body, orelse |-> orelse]
For(target, iter, body, orelse) ==
    [kind |-> "For", target |-> target, iter |-> iter, body |-> body,
     orelse |-> orelse]
AsyncFor(target, iter, body, orelse) ==
    [kind |-> "AsyncFor", target |-> target, iter |-> iter, body |-> body,
     orelse |-> orelse]
While(test, body, orelse) ==
    [kind |-> "While", test |-> test, body |-> body, orelse |-> orelse]
WithItem(context_expr) == [kind |-> "withitem", context_expr |-> context_expr]
With(items, body) == [kind |-> "With", items |-> items, body |-> body]
AsyncWith(items, body) == [kind |-> "AsyncWith", items |-> items, body |-> body]
ExceptHandler(type, body) == [kind |-> "ExceptHandler", type |-> type, body |-> body]
Try(body, handlers, orelse, finalbody) ==
    [kind |-> "Try", body |-> body, handlers |-> handlers, orelse |-> orelse,
     finalbody |-> finalbody]
BoolOp(values) == [kind |-> "BoolOp", values |-> values]
IfExp(test, body, orelse) ==
    [kind |-> "IfExp", test |-> test, body |-> body, orelse |-> orelse]
Comprehension(target, iter, ifs) ==
    [kind |-> "comprehension", target |-> target, iter |-> iter, ifs |-> ifs]
ListComp(elt, generators) ==
    [kind |-> "ListComp", elt |-> elt, generators |-> generators]
Raise == [kind |-> "Raise"]
AssertStmt(test) == [kind |-> "Assert", test |-> test]
Return(value) == [kind |-> "Return", value |-> value]
ClassDef(name, bases, body) ==
    [kind |-> "ClassDef", name |-> name, bases |-> bases, body |-> body]
Module(body) == [kind |-> "Module", body |-> body]

\* ast.iter_child_nodes: the child nodes of a node, field by field.
iter_child_nodes(node) ==
    CASE node.kind = "Module" -> node.body
      [] node.kind = "ClassDef" -> node.bases \o node.body \o decorator_list(node)
      [] node.kind \in {"FunctionDef", "AsyncFunctionDef"} ->
             <<node.args>> \o node.body \o decorator_list(node)
                 \o OptNode(returns(node))
      [] node.kind = "arg" -> OptNode(annotation(node))
      [] node.kind \in {"Import", "ImportFrom"} -> node.names
      [] node.kind = "Tuple" -> node.elts
      [] node.kind \in {"If", "While"} -> <<node.test>> \o node.body \o node.orelse
      [] node.kind \in {"For", "AsyncFor"} ->
             <<node.target, node.iter>> \o node.body \o node.orelse
      [] node.kind \in {"With", "AsyncWith"} -> node.items \o node.body
      [] node.kind = "withitem" ->
             <<node.context_expr>> \o OptNode(GetField(node, "optional_vars", None))
      [] node.kind = "Try" ->
             node.body \o node.handlers \o node.orelse \o node.finalbody
      [] node.kind = "ExceptHandler" -> OptNode(node.type) \o node.body
      [] node.kind = "BoolOp" -> node.values
      [] node.kind = "IfExp" -> <<node.test, node.body, node.orelse>>
      [] node.kind = "ListComp" -> <<node.elt>> \o node.generators
      [] node.kind = "comprehension" -> <<node.target, node.iter>> \o node.ifs
      [] node.kind \in {"Assert"} -> <<node.test>>
      [] node.kind \in {"Return"} -> <<node.value>>
      [] node.kind = "arguments" -> node.args
      [] node.kind = "Expr" -> <<node.value>>
      [] node.kind = "Assign" -> node.targets \o <<node.value>>
      [] node.kind = "AnnAssign" -> <<node.target, node.annotation>>
      [] node.kind = "Attribute" -> <<node.value>>
      [] node.kind = "Call" -> <<node.func>> \o node.args
      [] node.kind = "Subscript" -> <<node.value>>
      [] OTHER -> <<>>

\* ast.walk: breadth first, from a queue of nodes still to yield.
RECURSIVE walk_queue(_)
walk_queue(todo) ==
    IF todo = <<>> THEN <<>>
    ELSE <<Head(todo)>> \o walk_queue(Tail(todo) \o iter_child_nodes(Head(todo)))

ast_walk(node) == walk_queue(<<node>>)

\* for tree in parsed_py_files: for node in ast.walk(tree): the nodes in order.
walk_all(trees) == Flatten([i \in DOMAIN trees |-> ast_walk(trees[i])])

IsClassDef(node) == node.kind = "ClassDef"

\* The ClassDef nodes of all trees, in the order the analyzers meet them.
class_nodes(trees) == SelectSeq(walk_all(trees), IsClassDef)

(***************************************************************************)
(* A Python dict that is iterated: its keys in insertion order.            *)
(***************************************************************************)
EmptyDict == [keys |-> <<>>, val |-> <<>>]

DictSet(d, k, v) ==
    [keys |-> IF k \in Range(d.keys) THEN d.keys ELSE Append(d.keys, k),
     val |-> (k :> v) @@ d.val]

\* d[k] = v on a dict that is never iterated: a function.
MapSet(m, k, v) == [x \in (DOMAIN m) \cup {k} |-> IF x = k THEN v ELSE m[x]]

\* d.get(k, default)
MapGet(m, k, default) == IF k \in DOMAIN m THEN m[k] ELSE default

(***************************************************************************)
(* list(a_set): Python lists a set of strings in the order of its hash     *)
(* table, which the process's hash seed fixes.  hash_seed is that order,   *)
(* as a list of all the strings a set may hold.                            *)
(***************************************************************************)
AttrNames == {"x", "y"}

Perms(S) == {s \in [1..Cardinality(S) -> S] : Range(s) = S}

DefaultSeed == CHOOSE s \in Perms(AttrNames) : TRUE

list_of_set(S, seed) == SelectSeq(seed, LAMBDA e : e \in S)

(***************************************************************************)
(* ClassMetrics.calculate_depth_of_inheritance_tree                        *)
(***************************************************************************)
RECURSIVE get_base_name(_)
get_base_name(base_node) ==
    IF base_node.kind = "Name" THEN base_node.id
    ELSE IF base_node.kind = "Attribute" THEN base_node.attr
    ELSE IF base_node.kind = "Call" THEN get_base_name(base_node.func)
    ELSE "UnknownBase"

\* The first loop: class_names.add(node.name) for every ClassDef.
dit_class_names(trees) == {node.name : node \in Range(class_nodes(trees))}

\* As dit_edges_of, without the test "if base_name in class_names".
dit_edges_of_unfiltered(node, class_names) ==
    [i \in DOMAIN node.bases |-> get_base_name(node.bases[i])]

\* edges[node.name] = [the base names that are in class_names], for one ClassDef.
dit_edges_of(node, class_names) ==
    LET names == [i \in DOMAIN node.bases |-> get_base_name(node.bases[i])]
    IN  SelectSeq(names, LAMBDA b : b \in class_names)

\* The second loop: the dict edges after the first k ClassDef nodes.
RECURSIVE dit_edges(_, _, _)
dit_edges(nodes, k, class_names) ==
    IF k = 0 THEN EmptyDict
    ELSE DictSet(dit_edges(nodes, k - 1, class_names),
                 nodes[k].name, dit_edges_of(nodes[k], class_names))

\* pseudo_dfs mutates visited and inheritance_depth; st holds both, and the
\* operator returns them as they are when the call returns.  st.entered lists
\* the classes whose visit went past the test of visited, in that order.
RECURSIVE pseudo_dfs(_, _, _)
RECURSIVE pseudo_dfs_children(_, _, _, _, _)
RECURSIVE pseudo_dfs_children_counting_unfinished(_, _, _, _, _)
\* As pseudo_dfs_children, a child without a depth yet counting as depth 1.
pseudo_dfs_children_counting_unfinished(children, i, st, max_child_depth, edges) ==
    IF i > Len(children) THEN [st |-> st, max_child_depth |-> max_child_depth]
    ELSE LET child == children[i]
             st1 == IF child \notin DOMAIN st.visited
                    THEN pseudo_dfs(child, st, edges)
                    ELSE st
             d == MapGet(st1.inheritance_depth, child, 1)
         IN  pseudo_dfs_children_counting_unfinished(children, i + 1, st1,
                                 IF d > max_child_depth THEN d ELSE max_child_depth,
                                 edges)

pseudo_dfs_children(children, i, st, max_child_depth, edges) ==
    IF i > Len(children) THEN [st |-> st, max_child_depth |-> max_child_depth]
    ELSE LET child == children[i]
             st1 == IF child \notin DOMAIN st.visited
                    THEN pseudo_dfs(child, st, edges)
                    ELSE st
             d == MapGet(st1.inheritance_depth, child, 0)
         IN  pseudo_dfs_children(children, i + 1, st1,
                                 IF d > max_child_depth THEN d ELSE max_child_depth,
                                 edges)

pseudo_dfs(temp_ver, st, edges) ==
    IF MapGet(st.visited, temp_ver, FALSE) THEN st
    ELSE LET st1 == [st EXCEPT !.visited = MapSet(st.visited, temp_ver, TRUE),
                               !.entered = Append(st.entered, temp_ver)]
             after == pseudo_dfs_children(MapGet(edges.val, temp_ver, <<>>), 1,
                                          st1, 0, edges)
         IN  [after.st EXCEPT !.inheritance_depth =
                  MapSet(after.st.inheritance_depth, temp_ver,
                         after.max_child_depth + 1)]

\* for cls in edges: if not visited[cls]: pseudo_dfs(cls, ...), over the first k keys.
RECURSIVE dit_visit_all(_, _)
dit_visit_all(edges, k) ==
    IF k = 0
    THEN [visited |-> [c \in Range(edges.keys) |-> FALSE],
          inheritance_depth |-> <<>>, entered |-> <<>>]
    ELSE LET st == dit_visit_all(edges, k - 1)
             cls == edges.keys[k]
         IN  IF ~st.visited[cls] THEN pseudo_dfs(cls, st, edges) ELSE st

\* The dict inheritance_depth when the loops are over.
dit_inheritance_depth(trees) ==
    LET nodes == class_nodes(trees)
        edges == dit_edges(nodes, Len(nodes), dit_class_names(trees))
    IN  dit_visit_all(edges, Len(edges.keys)).inheritance_depth

\* The classes pseudo_dfs visited, in the order it entered them.
dit_entered(trees) ==
    LET nodes == class_nodes(trees)
        edges == dit_edges(nodes, Len(nodes), dit_class_names(trees))
    IN  dit_visit_all(edges, Len(edges.keys)).entered

calculate_depth_of_inheritance_tree(trees) ==
    MaxOf(Range(dit_inheritance_depth(trees)), 0)

(***************************************************************************)
(* Inputs: repositories of classes that differ in their inheritance graph. *)
(***************************************************************************)
NamePool == <<"A", "B", "C", "D", "E">>

\* A class body that declares nothing.
EmptyBody == <<Pass>>

\* The ways to cut a sequence of top-level statements into f files, in order.
RECURSIVE Splits(_, _)
Splits(stmts, f) ==
    IF f = 0 THEN (IF stmts = <<>> THEN {<<>>} ELSE {})
    ELSE UNION {{<<Module(SubSeq(stmts, 1, k))>> \o rest :
                    rest \in Splits(SubSeq(stmts, k + 1, Len(stmts)), f - 1)} :
                k \in 0..Len(stmts)}

Layouts(stmts, max_files) == UNION {Splits(stmts, f) : f \in 0..max_files}

\* Classes named NamePool[1..n] in declaration order, each with no base or one
\* base written as a plain name; the base may be declared later, or nowhere.
ChainBases == {<<>>} \cup {<<Name(NamePool[j])>> : j \in DOMAIN NamePool}

ChainClasses(bs) == [i \in DOMAIN bs |-> ClassDef(NamePool[i], bs[i], EmptyBody)]

\* Two classes, the second with bases in every form a base takes.
BaseForms ==
    {Name("A"), Name("B"), Name("object"),
     Attribute(Name("pkg"), "A"), Call(Name("A"), <<>>),
     Subscript(Name("Generic"))}

FormClasses(bs) == <<ClassDef("A", <<>>, EmptyBody), ClassDef("B", bs, EmptyBody)>>

(***************************************************************************)
(* Specification of the depth of inheritance tree.                         *)
(***************************************************************************)
InitDIT ==
    /\ \/ \E bs \in SeqsUpTo(ChainBases, MaxClasses) :
              parsed_py_files \in Layouts(ChainClasses(bs), MaxFiles)
       \/ \E bs \in SeqsUpTo(BaseForms, MaxBases) :
              parsed_py_files \in Layouts(FormClasses(bs), MaxFiles)
    /\ py_files = <<>>
    /\ disk = <<>>
    /\ hash_seed = DefaultSeed
    /\ op = "init"
    /\ result = None
    /\ NoReport

Do_calculate_depth_of_inheritance_tree ==
    /\ op = "init"
    /\ op' = "calculate_depth_of_inheritance_tree"
    /\ result' = calculate_depth_of_inheritance_tree(parsed_py_files)
    /\ UNCHANGED <<parsed_py_files, py_files, all_files, disk, hash_seed, clock, reports,
                   value_calls, written>>

NextDIT == Do_calculate_depth_of_inheritance_tree

SpecDIT == InitDIT /\ [][NextDIT]_vars

(***************************************************************************)
(* The inheritance graph the depth is defined on: class name -> the names  *)
(* of its bases that are declared in the repository.                       *)
(***************************************************************************)
declared_bases(trees, name) ==
    UNION {{get_base_name(node.bases[i]) : i \in DOMAIN node.bases}
               \cap dit_class_names(trees) :
           node \in {n \in Range(class_nodes(trees)) : n.name = name}}

\* The classes reached from name in one or more steps along at most fuel edges.
RECURSIVE ancestors(_, _, _)
ancestors(trees, name, fuel) ==
    IF fuel = 0 THEN {}
    ELSE LET bs == declared_bases(trees, name)
         IN  bs \cup UNION {ancestors(trees, b, fuel - 1) : b \in bs}

acyclic(trees) ==
    \A c \in dit_class_names(trees) :
        c \notin ancestors(trees, c, Cardinality(dit_class_names(trees)))

\* The number of classes on the longest chain from name down to a class with no
\* declared base (on an acyclic graph).
RECURSIVE chain_length(_, _)
chain_length(trees, name) ==
    1 + MaxOf({chain_length(trees, b) : b \in declared_bases(trees, name)}, 0)

longest_chain(trees) ==
    MaxOf({chain_length(trees, c) : c \in dit_class_names(trees)}, 0)

\* Every class names only bases declared before it (or not declared at all).
bases_declared_first(trees) ==
    LET nodes == class_nodes(trees)
    IN  \A i \in DOMAIN nodes : \A b \in declared_bases(trees, nodes[i].name) :
            \E j \in 1..(i - 1) : nodes[j].name = b

\* The classes are a chain of four, each after the first deriving from the one
\* declared just before it, as in sample_inheritance_class_module's One,
\* EmptyClass, Alpha, Beta.
four_level_chain(trees) ==
    LET nodes == class_nodes(trees)
    IN  /\ Len(nodes) = 4
        /\ Cardinality(dit_class_names(trees)) = 4
        /\ declared_bases(trees, nodes[1].name) = {}
        /\ \A i \in 2..4 : declared_bases(trees, nodes[i].name) = {nodes[i - 1].name}

DITDone == op = "calculate_depth_of_inheritance_tree"

C2_OrderIndependent ==
    (DITDone /\ acyclic(parsed_py_files))
        => result = longest_chain(parsed_py_files)

(***************************************************************************)
(* CBOMetric.count_coupling_between_objects                                *)
(*                                                                         *)
(* '.'.join(reversed(parts)) is one-to-one on lists of identifiers (an     *)
(* identifier holds no dot), so a dotted name is modelled as the list of   *)
(* its parts, root first; a plain name is a list of one part.              *)
(***************************************************************************)
builtins == {<<"int">>, <<"str">>, <<"list">>, <<"dict">>, <<"bool">>, <<"float">>}

\* while isinstance(current, ast.Attribute): parts.append(current.attr); ...
RECURSIVE attr_parts(_)
attr_parts(current) ==
    IF current.kind = "Attribute"
    THEN <<current.attr>> \o attr_parts(current.value)
    ELSE <<>>

\* current when that loop ends.
RECURSIVE attr_root(_)
attr_root(current) ==
    IF current.kind = "Attribute" THEN attr_root(current.value) ELSE current

\* The set holding '.'.join(reversed(parts)) when the chain ends in a Name, else
\* empty.
full_names(expr) ==
    IF attr_root(expr).kind = "Name"
    THEN {Reverse(Append(attr_parts(expr), attr_root(expr).id))}
    ELSE {}

add_module_classes(module) ==
    {<<node.name>> : node \in {n \in Range(ast_walk(module)) : IsClassDef(n)}}

add_bases_names(node) ==
    UNION {full_names(node.bases[i]) \ builtins : i \in DOMAIN node.bases}

add_call_names_for_attr(func, module_classes) ==
    {n \in full_names(func) : n \in module_classes /\ n \notin builtins}

\* As add_call_names, without the test "if func.id not in builtins".
add_call_names_unfiltered(func, module_classes) ==
    IF func.kind = "Name" THEN {<<func.id>>}
    ELSE IF func.kind = "Attribute" THEN add_call_names_for_attr(func, module_classes)
    ELSE {}

\* The names one call adds to call_names.
add_call_names(func, module_classes) ==
    IF func.kind = "Name" THEN {<<func.id>>} \ builtins
    ELSE IF func.kind = "Attribute" THEN add_call_names_for_attr(func, module_classes)
    ELSE {}

\* for stmt in node.body: for sub_node in ast.walk(stmt): the Call nodes.
body_calls(node) ==
    SelectSeq(Flatten([i \in DOMAIN node.body |-> ast_walk(node.body[i])]),
              LAMBDA n : n.kind = "Call")

cbo_call_names(node, module_classes) ==
    LET calls == body_calls(node)
    IN  UNION {add_call_names(calls[i].func, module_classes) : i \in DOMAIN calls}

\* As walk_module, a class name that has an entry keeping it.
RECURSIVE walk_module_keeping_first(_, _, _, _)
walk_module_keeping_first(nodes, k, res, module_classes) ==
    IF k = 0 THEN res
    ELSE LET node == nodes[k]
             all_used == add_bases_names(node) \cup cbo_call_names(node, module_classes)
             before == walk_module_keeping_first(nodes, k - 1, res, module_classes)
         IN  IF node.name \in DOMAIN before THEN before
             ELSE MapSet(before, node.name, Cardinality(all_used))

\* walk_module, over the first k ClassDef nodes of the module.
RECURSIVE walk_module(_, _, _, _)
walk_module(nodes, k, res, module_classes) ==
    IF k = 0 THEN res
    ELSE LET node == nodes[k]
             all_used == add_bases_names(node) \cup cbo_call_names(node, module_classes)
         IN  MapSet(walk_module(nodes, k - 1, res, module_classes),
                    node.name, Cardinality(all_used))

\* for module in parsed_py_files, over the first k modules.
RECURSIVE cbo_modules(_, _)
cbo_modules(trees, k) ==
    IF k = 0 THEN <<>>
    ELSE LET nodes == SelectSeq(ast_walk(trees[k]), IsClassDef)
         IN  walk_module(nodes, Len(nodes), cbo_modules(trees, k - 1),
                         add_module_classes(trees[k]))

count_coupling_between_objects(trees) == cbo_modules(trees, Len(trees))

(***************************************************************************)
(* Inputs: a class ClassB with bases and calls in every form, next to a    *)
(* class ClassA in the same file, in another file, or nowhere.             *)
(***************************************************************************)
CBOBaseForms ==
    {Name("ClassA"), Name("Parent"), Name("int"),
     Attribute(Name("pkg"), "ClassA"), Call(Name("ClassA"), <<>>)}

CBOCallForms ==
    {Name("ClassA"), Name("OtherClass"), Name("int"),
     Attribute(Name("ClassA"), "build"),
     Attribute(Attribute(Name("self"), "a"), "method_a")}

\* A method whose body makes the calls to funcs, one statement each.
CallingMethod(funcs) ==
    FunctionDef("method_b", <<Arg("self")>>,
                [i \in DOMAIN funcs |-> Expr(Call(funcs[i], <<>>))] \o <<Pass>>)

CBOClassB(bs, fs) == ClassDef("ClassB", bs, <<CallingMethod(fs)>>)

CBOClassA == ClassDef("ClassA", <<>>, <<FunctionDef("method_a", <<Arg("self")>>, <<Pass>>)>>)

CBORepos(b) ==
    {<<Module(<<b>>)>>, <<Module(<<CBOClassA, b>>)>>,
     <<Module(<<CBOClassA>>), Module(<<b>>)>>}

InitCBO ==
    /\ \E bs \in SeqsUpTo(CBOBaseForms, MaxBases), fs \in SeqsUpTo(CBOCallForms, MaxCalls) :
           parsed_py_files \in CBORepos(CBOClassB(bs, fs))
    /\ py_files = <<>>
    /\ disk = <<>>
    /\ hash_seed = DefaultSeed
    /\ op = "init"
    /\ result = None
    /\ NoReport

Do_count_coupling_between_objects ==
    /\ op = "init"
    /\ op' = "count_coupling_between_objects"
    /\ result' = count_coupling_between_objects(parsed_py_files)
    /\ UNCHANGED <<parsed_py_files, py_files, all_files, disk, hash_seed, clock, reports,
                   value_calls, written>>

NextCBO == Do_count_coupling_between_objects

SpecCBO == InitCBO /\ [][NextCBO]_vars

(***************************************************************************)
(* The coupling sets of a class, read off its declaration.                 *)
(***************************************************************************)
\* The Call nodes anywhere in the class body.
calls_in(node) ==
    {n \in UNION {Range(ast_walk(node.body[i])) : i \in DOMAIN node.body} :
        n.kind = "Call"}

\* The base names that count: chains rooted at a name, primitives left out.
counted_bases(node) ==
    {n \in UNION {full_names(node.bases[i]) : i \in DOMAIN node.bases} :
        n \notin builtins}

\* The names the class calls: plain names other than the primitives, and dotted
\* names that are classes of the same tree.
called_names(node, tree) ==
    {n \in UNION {full_names(c.func) : c \in calls_in(node)} :
        /\ n \notin builtins
        /\ Len(n) > 1 => n \in add_module_classes(tree)}

\* The last declaration of a class named name: its node and its tree.
last_class(trees, name) ==
    LET decls == UNION {{<<i, j>> : j \in {k \in DOMAIN SelectSeq(ast_walk(trees[i]), IsClassDef) :
                                       SelectSeq(ast_walk(trees[i]), IsClassDef)[k].name = name}} :
                        i \in DOMAIN trees}
        last == CHOOSE d \in decls : \A e \in decls :
                    e[1] < d[1] \/ (e[1] = d[1] /\ e[2] <= d[2])
    IN  [node |-> SelectSeq(ast_walk(trees[last[1]]), IsClassDef)[last[2]],
         tree |-> trees[last[1]]]

CBODone == op = "count_coupling_between_objects"

\* C3: count_coupling_between_objects gives a class with no bases and no calls
\* 0, a class whose only coupling is one base class 1, and a class with one base
\* class that calls one other class by plain name 2; in general the value of a
\* class is the size of the union of its counted base names and the names it
\* calls.
C3_CouplingCount ==
    CBODone =>
        /\ DOMAIN result = {n.name : n \in Range(class_nodes(parsed_py_files))}
        /\ \A name \in DOMAIN result :
            LET c == last_class(parsed_py_files, name)
                bases == counted_bases(c.node)
                called == called_names(c.node, c.tree)
            IN  /\ (c.node.bases = <<>> /\ calls_in(c.node) = {}) => result[name] = 0
                /\ (Cardinality(bases) = 1 /\ called = {}) => result[name] = 1
                /\ (/\ Cardinality(bases) = 1
                    /\ Cardinality(called) = 1
                    /\ bases # called
                    /\ \A n \in called : Len(n) = 1)
                       => result[name] = 2
                /\ result[name] = Cardinality(bases \cup called)

\* ClassB(Parent) that calls OtherClass(): the complex_case_module of the tests.
C3_Witness ==
    /\ CBODone
    /\ "ClassB" \in DOMAIN result
    /\ result["ClassB"] = 2
    /\ counted_bases(last_class(parsed_py_files, "ClassB").node) = {<<"Parent">>}
    /\ called_names(last_class(parsed_py_files, "ClassB").node,
                    last_class(parsed_py_files, "ClassB").tree) = {<<"OtherClass">>}

(***************************************************************************)
(* CyclomaticComplexityVisitor and calculate_cyclomatic_complexity         *)
(***************************************************************************)
\* A file on disk: what ast.parse makes of its text (a tree, or SyntaxError).
SourceFile(tree) == [tree |-> tree]
SyntaxError == [kind |-> "SyntaxError"]

\* NodeVisitor.visit dispatches on the node's class to visit_<class>, each of
\* which adds to self.complexity and calls generic_visit; a class without a
\* method goes to generic_visit.  The operators return self.complexity.
RECURSIVE visit(_, _)
RECURSIVE generic_visit_from(_, _, _)
generic_visit_from(children, i, complexity) ==
    IF i > Len(children) THEN complexity
    ELSE generic_visit_from(children, i + 1, visit(children[i], complexity))

generic_visit(node, complexity) ==
    generic_visit_from(iter_child_nodes(node), 1, complexity)

\* As visit_BoolOp, adding len(node.values).
visit_BoolOp_all_values(node, complexity) ==
    generic_visit(node, complexity + Len(node.values))

visit_BoolOp(node, complexity) ==
    generic_visit(node, complexity + Len(node.values) - 1)

visit_comprehension(node, complexity) ==
    generic_visit(node, complexity + Len(node.ifs))

visit(node, complexity) ==
    CASE node.kind \in {"If", "Else", "For", "AsyncFor", "While", "With",
                        "AsyncWith", "ExceptHandler", "IfExp", "Raise", "Assert"} ->
             generic_visit(node, complexity + 1)
      [] node.kind = "BoolOp" -> visit_BoolOp(node, complexity)
      [] node.kind = "comprehension" -> visit_comprehension(node, complexity)
      [] OTHER -> generic_visit(node, complexity)

\* As visitor_complexity, with one visitor kept from call to call: its
\* complexity starts where the calls before left it.
visitor_complexity_kept(node) == visit(node, 1 + Len(value_calls))

\* visitor = CyclomaticComplexityVisitor(); visitor.visit(node); visitor.complexity
visitor_complexity(node) == visit(node, 1)

IsFunction(node) == node.kind \in {"FunctionDef", "AsyncFunctionDef"}

\* As file_complexities, a name that has an entry keeping it.
RECURSIVE file_complexities_keeping_first(_, _)
file_complexities_keeping_first(funcs, k) ==
    IF k = 0 THEN <<>>
    ELSE LET before == file_complexities_keeping_first(funcs, k - 1)
         IN  IF funcs[k].name \in DOMAIN before THEN before
             ELSE MapSet(before, funcs[k].name, visitor_complexity(funcs[k]))

\* file_complexities after the first k function nodes of the tree.
RECURSIVE file_complexities(_, _)
file_complexities(funcs, k) ==
    IF k = 0 THEN <<>>
    ELSE MapSet(file_complexities(funcs, k - 1),
                funcs[k].name, visitor_complexity(funcs[k]))

\* results after the first k files; a file that does not parse is skipped.
RECURSIVE cyclomatic_files(_, _, _)
cyclomatic_files(files, fs, k) ==
    IF k = 0 THEN <<>>
    ELSE LET before == cyclomatic_files(files, fs, k - 1)
             tree == fs[files[k]].tree
         IN  IF tree = SyntaxError THEN before
             ELSE LET funcs == SelectSeq(ast_walk(tree), IsFunction)
                  IN  MapSet(before, files[k], file_complexities(funcs, Len(funcs)))

calculate_cyclomatic_complexity(files, fs) == cyclomatic_files(files, fs, Len(files))

(***************************************************************************)
(* Inputs: one file with one function, its body up to MaxStmts statements  *)
(* that cover every construct the visitor knows, nested one level.         *)
(***************************************************************************)
X == Name("x")

CCExprs ==
    {X, BoolOp(<<X, X>>), BoolOp(<<X, X, X>>), BoolOp(<<BoolOp(<<X, X>>), X>>),
     IfExp(X, X, X),
     ListComp(X, <<Comprehension(X, X, <<>>)>>),
     ListComp(X, <<Comprehension(X, X, <<X>>)>>),
     ListComp(X, <<Comprehension(X, X, <<X, X>>)>>)}

CCSimple == {Pass, Raise, AssertStmt(X)} \cup {Return(e) : e \in CCExprs}

CCInner == {<<Pass>>, <<If(X, <<Pass>>, <<>>)>>}

CCCompound ==
    {If(t, <<Pass>>, e) : t \in {X, BoolOp(<<X, X, X>>)},
                          e \in {<<>>, <<Pass>>, <<If(X, <<Pass>>, <<Pass>>)>>}}
    \cup UNION {{For(X, X, b, <<>>), AsyncFor(X, X, b, <<>>), While(X, b, <<Pass>>),
                 With(<<WithItem(X), WithItem(X)>>, b), AsyncWith(<<WithItem(X)>>, b),
                 Try(b, <<ExceptHandler(X, <<Pass>>)>>, <<>>, <<>>),
                 Try(<<Pass>>, <<ExceptHandler(X, b), ExceptHandler(X, <<Pass>>)>>,
                     <<Pass>>, <<Pass>>),
                 FunctionDef("inner", <<>>, b)} : b \in CCInner}

CCBodies(max_stmts) == SeqsUpTo(CCSimple \cup CCCompound, max_stmts) \ {<<>>}

CCFunctions(b) == {FunctionDef("func", <<>>, b), AsyncFunctionDef("func", <<>>, b)}

InitCC ==
    /\ parsed_py_files = <<>>
    /\ py_files = <<"a.py">>
    /\ \E b \in CCBodies(MaxStmts) : \E f \in CCFunctions(b) :
           disk = [p \in {"a.py"} |-> SourceFile(Module(<<f>>))]
    /\ hash_seed = DefaultSeed
    /\ op = "init"
    /\ result = None
    /\ NoReport

Do_calculate_cyclomatic_complexity ==
    /\ op = "init"
    /\ op' = "calculate_cyclomatic_complexity"
    /\ result' = calculate_cyclomatic_complexity(py_files, disk)
    /\ UNCHANGED <<parsed_py_files, py_files, all_files, disk, hash_seed, clock, reports,
                   value_calls, written>>

NextCC == Do_calculate_cyclomatic_complexity

SpecCC == InitCC /\ [][NextCC]_vars

(***************************************************************************)
(* The constructs counted inside a function.                               *)
(***************************************************************************)
\* Sum of a sequence of numbers.
RECURSIVE Sum(_)
Sum(s) == IF s = <<>> THEN 0 ELSE Head(s) + Sum(Tail(s))

\* How many nodes of the given classes the function holds.
count_of(func, kinds) == Len(SelectSeq(ast_walk(func), LAMBDA n : n.kind \in kinds))

\* operands - 1 summed over the boolean expressions of the function.
extra_operands(func) ==
    LET ops == SelectSeq(ast_walk(func), LAMBDA n : n.kind = "BoolOp")
    IN  Sum([i \in DOMAIN ops |-> Len(ops[i].values) - 1])

\* The filter clauses of the comprehensions of the function.
filter_clauses(func) ==
    LET comps == SelectSeq(ast_walk(func), LAMBDA n : n.kind = "comprehension")
    IN  Sum([i \in DOMAIN comps |-> Len(comps[i].ifs)])

branching ==
    {"If", "For", "AsyncFor", "While", "With", "AsyncWith", "ExceptHandler",
     "IfExp", "Raise", "Assert"}

\* The function the file declares at module level.
cc_func == disk["a.py"].tree.body[1]

\* The same function with an `else: pass` added to each if and loop of its body
\* that has none.
with_else(func) ==
    [func EXCEPT !.body =
        [i \in DOMAIN func.body |->
            IF "orelse" \in DOMAIN func.body[i] /\ func.body[i].orelse = <<>>
            THEN [func.body[i] EXCEPT !.orelse = <<Pass>>]
            ELSE func.body[i]]]

CCDone == op = "calculate_cyclomatic_complexity"

\* C4: the cyclomatic complexity of every function is 1, plus one for each
\* if/elif, for, async for, while, with, async with, except handler, conditional
\* expression, raise and assert inside it, plus operands - 1 for each boolean
\* expression and one for each comprehension filter clause; an else clause adds
\* nothing.
C4_CyclomaticComplexity ==
    CCDone =>
        /\ DOMAIN result = {"a.py"}
        /\ DOMAIN result["a.py"] =
               {f.name : f \in {n \in Range(ast_walk(disk["a.py"].tree)) : IsFunction(n)}}
        /\ result["a.py"]["func"] =
               1 + count_of(cc_func, branching) + extra_operands(cc_func)
                 + filter_clauses(cc_func)
        /\ visitor_complexity(with_else(cc_func)) = result["a.py"]["func"]
        /\ (count_of(cc_func, branching \cup {"BoolOp", "comprehension"}) = 0)
               => result["a.py"]["func"] = 1

\* A function whose body is one if on a boolean expression of three operands,
\* with an elif and an else: 1 + 1 (if) + 2 (operands) + 1 (elif).
C4_Witness ==
    /\ CCDone
    /\ cc_func.body = <<If(BoolOp(<<X, X, X>>), <<Pass>>,
                           <<If(X, <<Pass>>, <<Pass>>)>>)>>
    /\ result["a.py"]["func"] = 5

(***************************************************************************)
(* CodeComplexityAndQualityMetrics.calculate_lcom                          *)
(***************************************************************************)
IsSelfAttribute(node) ==
    /\ node.kind = "Attribute"
    /\ node.value.kind = "Name"
    /\ node.value.id = "self"

\* _AttributeVisitor: visit_Attribute and visit_Assign add to self.attributes
\* and call generic_visit.  The operators return self.attributes.
RECURSIVE attribute_visit(_, _)
RECURSIVE attribute_generic_visit(_, _, _)
attribute_generic_visit(children, i, attributes) ==
    IF i > Len(children) THEN attributes
    ELSE attribute_generic_visit(children, i + 1,
                                 attribute_visit(children[i], attributes))

attribute_visit(node, attributes) ==
    CASE node.kind = "Attribute" ->
             attribute_generic_visit(
                 iter_child_nodes(node), 1,
                 IF IsSelfAttribute(node) THEN attributes \cup {node.attr}
                 ELSE attributes)
      [] node.kind = "Assign" ->
             attribute_generic_visit(
                 iter_child_nodes(node), 1,
                 attributes \cup {node.targets[i].attr :
                                     i \in {j \in DOMAIN node.targets :
                                               IsSelfAttribute(node.targets[j])}})
      [] OTHER -> attribute_generic_visit(iter_child_nodes(node), 1, attributes)

\* methods: one entry per FunctionDef of the class body.
lcom_methods(node) ==
    LET defs == SelectSeq(node.body, LAMBDA child : child.kind = "FunctionDef")
    IN  [i \in DOMAIN defs |->
            [name |-> defs[i].name, attributes |-> attribute_visit(defs[i], {})]]

\* The two loops of run_methods_lcom from (i, j) on; pq is <<p, q>>.
RECURSIVE lcom_pairs(_, _, _, _)
lcom_pairs(methods, i, j, pq) ==
    IF i > Len(methods) THEN pq
    ELSE IF j > Len(methods) THEN lcom_pairs(methods, i + 1, i + 2, pq)
    ELSE lcom_pairs(methods, i, j + 1,
                    IF methods[i].attributes \cap methods[j].attributes = {}
                    THEN <<pq[1] + 1, pq[2]>>
                    ELSE <<pq[1], pq[2] + 1>>)

\* As run_methods_lcom, returning p - q whatever its sign.
run_methods_lcom_signed(methods) ==
    IF Len(methods) > 1
    THEN LET pq == lcom_pairs(methods, 1, 2, <<0, 0>>) IN pq[1] - pq[2]
    ELSE 0

run_methods_lcom(methods) ==
    IF Len(methods) > 1
    THEN LET pq == lcom_pairs(methods, 1, 2, <<0, 0>>)
         IN  IF pq[1] > pq[2] THEN pq[1] - pq[2] ELSE 0
    ELSE 0

\* lcom_results after the first k ClassDef nodes.
RECURSIVE lcom_classes(_, _, _)
lcom_classes(nodes, k, seed) ==
    IF k = 0 THEN <<>>
    ELSE LET methods == lcom_methods(nodes[k])
             all_attributes == UNION {methods[i].attributes : i \in DOMAIN methods}
         IN  MapSet(lcom_classes(nodes, k - 1, seed), nodes[k].name,
                    [lcom |-> run_methods_lcom(methods),
                     methods |-> Len(methods),
                     attributes |-> list_of_set(all_attributes, seed)])

calculate_lcom(trees, seed) ==
    lcom_classes(class_nodes(trees), Len(class_nodes(trees)), seed)

(***************************************************************************)
(* Inputs: a class with up to MaxMethods methods that read and assign the  *)
(* attributes x and y of self in several ways, or none.                    *)
(***************************************************************************)
Self(attr) == Attribute(Name("self"), attr)

LCOMBodies ==
    {<<Pass>>,
     <<Assign(<<Self("x")>>, X)>>,
     <<Return(Self("y"))>>,
     <<Assign(<<Self("x")>>, Self("y"))>>,
     <<Return(Attribute(Self("x"), "y"))>>,
     <<Return(Attribute(Name("other"), "x"))>>}

MethodNames == <<"method_a", "method_b", "method_c", "method_d">>

LCOMClass(bodies) ==
    ClassDef("A", <<>>,
             IF bodies = <<>> THEN <<Pass>>
             ELSE [i \in DOMAIN bodies |->
                      FunctionDef(MethodNames[i], <<Arg("self")>>, bodies[i])])

InitLCOM ==
    /\ \E bodies \in SeqsUpTo(LCOMBodies, MaxMethods) :
           parsed_py_files = <<Module(<<LCOMClass(bodies)>>)>>
    /\ py_files = <<>>
    /\ disk = <<>>
    /\ hash_seed \in Perms(AttrNames)
    /\ op = "init"
    /\ result = None
    /\ NoReport

Do_calculate_lcom ==
    /\ op = "init"
    /\ op' = "calculate_lcom"
    /\ result' = calculate_lcom(parsed_py_files, hash_seed)
    /\ UNCHANGED <<parsed_py_files, py_files, all_files, disk, hash_seed, clock, reports,
                   value_calls, written>>

NextLCOM == Do_calculate_lcom

SpecLCOM == InitLCOM /\ [][NextLCOM]_vars

(***************************************************************************)
(* Cohesion of a class, read off its declaration.                          *)
(***************************************************************************)
\* The methods declared directly in the class body.
declared_methods(node) == SelectSeq(node.body, LAMBDA n : n.kind = "FunctionDef")

\* The attributes of self that a method reads or assigns.
self_attributes(method) ==
    {n.attr : n \in {m \in Range(ast_walk(method)) : IsSelfAttribute(m)}}

\* The unordered pairs of methods, as index pairs.
method_pairs(node) ==
    {pr \in (DOMAIN declared_methods(node)) \X (DOMAIN declared_methods(node)) :
        pr[1] < pr[2]}

disjoint_pairs(node) ==
    {pr \in method_pairs(node) :
        self_attributes(declared_methods(node)[pr[1]])
            \cap self_attributes(declared_methods(node)[pr[2]]) = {}}

LCOMDone == op = "calculate_lcom"

\* C5: for every class lcom = max(p - q, 0), p the number of unordered pairs of
\* its methods with disjoint sets of self attributes and q the number of the
\* other pairs (p + q = n(n-1)/2); fewer than two methods score 0, two methods
\* on disjoint attributes 1, two methods on the same attribute 0, and lcom is
\* never negative.
C5_Lcom ==
    LCOMDone =>
        /\ DOMAIN result = {n.name : n \in Range(class_nodes(parsed_py_files))}
        /\ \A name \in DOMAIN result :
            LET node == last_class(parsed_py_files, name).node
                n == Len(declared_methods(node))
                p == Cardinality(disjoint_pairs(node))
                q == Cardinality(method_pairs(node) \ disjoint_pairs(node))
            IN  /\ 2 * (p + q) = n * (n - 1)
                /\ result[name].lcom = IF p - q > 0 THEN p - q ELSE 0
                /\ result[name].lcom >= 0
                /\ n < 2 => result[name].lcom = 0
                /\ (n = 2 /\ p = 1) => result[name].lcom = 1
                /\ (n = 2 /\ p = 0) => result[name].lcom = 0

\* Three methods, of which one touches no attribute and the two others share
\* one: p = 2, q = 1.
C5_Witness ==
    /\ LCOMDone
    /\ LET node == last_class(parsed_py_files, "A").node
       IN  /\ Len(declared_methods(node)) = 3
           /\ Cardinality(disjoint_pairs(node)) = 2
           /\ \E i \in 1..3 : self_attributes(declared_methods(node)[i]) = {}
    /\ result["A"].lcom = 1

(***************************************************************************)
(* ClassMetrics: the hiding, inheritance and polymorphism factors          *)
(***************************************************************************)
\* The statements of the bodies of all classes, in the order they are met.
class_body_nodes(trees) ==
    LET nodes == class_nodes(trees)
    IN  Flatten([i \in DOMAIN nodes |-> nodes[i].body])

\* As calculate_method_hiding_factor, dividing without looking at the total.
calculate_method_hiding_factor_unguarded(trees) ==
    LET methods == SelectSeq(class_body_nodes(trees), LAMBDA n : n.kind = "FunctionDef")
    IN  TrueDiv(Len(SelectSeq(methods, LAMBDA n : startswith_underscore(n.name))),
                Len(methods))

calculate_method_hiding_factor(trees) ==
    LET methods == SelectSeq(class_body_nodes(trees), LAMBDA n : n.kind = "FunctionDef")
        total_method_num == Len(methods)
        private_method_num ==
            Len(SelectSeq(methods, LAMBDA n : startswith_underscore(n.name)))
    IN  IF total_method_num # 0
        THEN TrueDiv(private_method_num, total_method_num)
        ELSE Number(0)

\* add_attr_nums: what one statement of a class body adds to private_attr_num.
private_attrs_of(subnode) ==
    IF subnode.kind = "Assign"
    THEN Len(SelectSeq(subnode.targets,
                       LAMBDA t : t.kind = "Name" /\ startswith_underscore(t.id)))
    ELSE IF subnode.kind = "AnnAssign"
    THEN (IF subnode.target.kind = "Name" /\ startswith_underscore(subnode.target.id)
          THEN 1 ELSE 0)
    ELSE 0

\* add_attr_nums: what one statement of a class body adds to total_attr_num.
total_attrs_of(subnode) == IF subnode.kind \in {"Assign", "AnnAssign"} THEN 1 ELSE 0

calculate_attribute_hiding_factor(trees) ==
    LET body == class_body_nodes(trees)
        private_attr_num == Sum([i \in DOMAIN body |-> private_attrs_of(body[i])])
        total_attr_num == Sum([i \in DOMAIN body |-> total_attrs_of(body[i])])
    IN  IF total_attr_num # 0
        THEN TrueDiv(private_attr_num, total_attr_num)
        ELSE Number(0)

\* base_names: the bases written as a name or an attribute, by their last part.
mif_base_names(node) ==
    LET named == SelectSeq(node.bases, LAMBDA b : b.kind \in {"Name", "Attribute"})
    IN  [i \in DOMAIN named |->
            IF named[i].kind = "Name" THEN named[i].id ELSE named[i].attr]

\* The methods of the class bodies.
own_methods(node) == SelectSeq(node.body, LAMBDA n : n.kind = "FunctionDef")

\* behave_other_nodes: the methods of the classes of the tree named in base_names,
\* one entry per declaration.
base_methods(tree, base_names) ==
    LET others == SelectSeq(ast_walk(tree),
                            LAMBDA n : IsClassDef(n) /\ n.name \in Range(base_names))
    IN  Flatten([i \in DOMAIN others |-> own_methods(others[i])])

\* The value of one class: inherited_methods_num / len(all_methods), or 0.0.
method_inheritance_of(node, tree) ==
    LET inherited == base_methods(tree, mif_base_names(node))
        all_methods == {m.name : m \in Range(own_methods(node))}
                           \cup {m.name : m \in Range(inherited)}
    IN  IF Cardinality(all_methods) > 0
        THEN TrueDiv(Len(inherited), Cardinality(all_methods))
        ELSE Number(0)

\* The value of one class: overriden_methods_num / len(all_methods), or 0.0.
method_polymorphism_of(node, tree) ==
    LET inherited == base_methods(tree, mif_base_names(node))
        init_methods == {m.name : m \in Range(own_methods(node))}
        all_methods == init_methods \cup {m.name : m \in Range(inherited)}
        overriden == SelectSeq(inherited, LAMBDA m : m.name \in init_methods)
    IN  IF all_methods # {}
        THEN TrueDiv(Len(overriden), Cardinality(all_methods))
        ELSE Number(0)

\* The value of one class under either factor.
factor_of(factor, node, tree) ==
    IF factor = "inheritance"
    THEN method_inheritance_of(node, tree)
    ELSE method_polymorphism_of(node, tree)

\* The result dict of either factor after the first k classes of the tree.
RECURSIVE factor_classes(_, _, _, _, _)
factor_classes(factor, tree, nodes, k, res) ==
    IF k = 0 THEN res
    ELSE MapSet(factor_classes(factor, tree, nodes, k - 1, res),
                nodes[k].name, factor_of(factor, nodes[k], tree))

\* ... and after the first k trees.
RECURSIVE factor_trees(_, _, _)
factor_trees(factor, trees, k) ==
    IF k = 0 THEN <<>>
    ELSE LET nodes == SelectSeq(ast_walk(trees[k]), IsClassDef)
         IN  factor_classes(factor, trees[k], nodes, Len(nodes),
                            factor_trees(factor, trees, k - 1))

calculate_method_inheritance_factor(trees) ==
    factor_trees("inheritance", trees, Len(trees))

calculate_method_polymorphism_factor(trees) ==
    factor_trees("polymorphism", trees, Len(trees))

(***************************************************************************)
(* Inputs: files of top-level statements without a class, and files with   *)
(* a base class and a class derived from it.                               *)
(***************************************************************************)
TopLevelStmts ==
    {Pass,
     FunctionDef("func", <<Arg("self")>>, <<Assign(<<Self("x")>>, X)>>),
     FunctionDef("_private", <<>>, <<Expr(Call(Name("ClassA"), <<>>))>>),
     Assign(<<Name("_a")>>, X),
     AnnAssign(Name("_b"), Name("int")),
     Expr(Call(Attribute(Name("ClassA"), "build"), <<>>))}

ClassStmts ==
    {Pass,
     FunctionDef("test", <<Arg("self")>>, <<Assign(<<Self("x")>>, X)>>),
     FunctionDef("_private", <<Arg("self")>>, <<Return(Self("x"))>>),
     Assign(<<Name("_a")>>, X),
     AnnAssign(Name("main"), Name("str"))}

BaseClass == ClassDef("A", <<>>, <<FunctionDef("test", <<Arg("self")>>, <<Pass>>)>>)

InitClass ==
    /\ \/ \E stmts \in SeqsUpTo(TopLevelStmts, MaxStmts) :
              parsed_py_files \in Layouts(stmts, MaxFiles)
       \/ \E body \in SeqsUpTo(ClassStmts, MaxStmts) \ {<<>>},
             bs \in {<<>>, <<Name("A")>>} :
              parsed_py_files \in
                  Layouts(<<BaseClass, ClassDef("Test", bs, body)>>, MaxFiles)
    /\ py_files = <<>>
    /\ disk = <<>>
    /\ hash_seed = DefaultSeed
    /\ op = "init"
    /\ result = None
    /\ NoReport

\* A method of the analyzers runs on the parsed files and returns.
Returns(method, value) ==
    /\ op = "init"
    /\ op' = method
    /\ result' = value
    /\ UNCHANGED <<parsed_py_files, py_files, all_files, disk, hash_seed, clock, reports,
                   value_calls, written>>

Do_calculate_method_hiding_factor ==
    Returns("calculate_method_hiding_factor",
            calculate_method_hiding_factor(parsed_py_files))

Do_calculate_attribute_hiding_factor ==
    Returns("calculate_attribute_hiding_factor",
            calculate_attribute_hiding_factor(parsed_py_files))

Do_calculate_method_inheritance_factor ==
    Returns("calculate_method_inheritance_factor",
            calculate_method_inheritance_factor(parsed_py_files))

Do_calculate_method_polymorphism_factor ==
    Returns("calculate_method_polymorphism_factor",
            calculate_method_polymorphism_factor(parsed_py_files))

NextClass ==
    \/ Do_calculate_method_hiding_factor
    \/ Do_calculate_attribute_hiding_factor
    \/ Do_calculate_method_inheritance_factor
    \/ Do_calculate_method_polymorphism_factor
    \/ Do_calculate_depth_of_inheritance_tree
    \/ Do_count_coupling_between_objects
    \/ Do_calculate_lcom

SpecClass == InitClass /\ [][NextClass]_vars

\* C6: on a list of trees that declares no class, the empty list included, no
\* class-scoped metric raises: CBO, the method-inheritance factor, the
\* polymorphism factor and LCOM return an empty mapping, and the method-hiding
\* factor, the attribute-hiding factor and the depth of inheritance tree
\* return 0.
C6_NoClassDeclared ==
    (class_nodes(parsed_py_files) = <<>> /\ op # "init") =>
        /\ op \in {"count_coupling_between_objects",
                   "calculate_method_inheritance_factor",
                   "calculate_method_polymorphism_factor",
                   "calculate_lcom"} => result = <<>>
        /\ op \in {"calculate_method_hiding_factor",
                   "calculate_attribute_hiding_factor"} => NumEq(result, 0)
        /\ op = "calculate_depth_of_inheritance_tree" => result = 0

\* Two files of functions and assignments and no class, and the method-hiding
\* factor computed on them.
C6_Witness ==
    /\ Len(parsed_py_files) = 2
    /\ \A i \in 1..2 : Len(parsed_py_files[i].body) = 1
    /\ \E n \in Range(walk_all(parsed_py_files)) :
           n.kind = "FunctionDef" /\ startswith_underscore(n.name)
    /\ class_nodes(parsed_py_files) = <<>>
    /\ op = "calculate_method_hiding_factor"
    /\ NumEq(result, 0)

(***************************************************************************)
(* AverageBasedMetrics                                                     *)
(***************************************************************************)
\* A file on disk with its text: the lines of the text and what ast.parse
\* makes of it.
TextFile(lines, tree) == [lines |-> lines, tree |-> tree]

\* A line of text: indent spaces, then text (which neither starts nor ends
\* with white space, and is empty on a blank line), then the newline.
Line(indent, text) == [indent |-> indent, text |-> text]

\* len(line)
line_len(line) == line.indent + Len(line.text) + 1

\* line.strip()
line_strip(line) == line.text

\* The node as the parser leaves it for a text on one source line, and for a
\* text from line lineno to line end_lineno.
Span(node, lineno, end_lineno) ==
    SetField(SetField(node, "lineno", lineno), "end_lineno", end_lineno)

At(node, lineno) == Span(node, lineno, lineno)

\* hasattr(n, 'lineno')
HasLineno(n) == "lineno" \in DOMAIN n

\* As count_average_number_of_methods_per_class, dividing without looking at
\* the number of classes.
count_average_number_of_methods_per_class_unguarded(trees) ==
    LET classes == class_nodes(trees)
    IN  TrueDiv(Sum([i \in DOMAIN classes |-> Len(own_methods(classes[i]))]),
                Len(classes))

count_average_number_of_lines_per_file(files, fs) ==
    LET file_count == Len(files)
        total_lines == Sum([i \in DOMAIN files |-> Len(fs[files[i]].lines)])
    IN  IF file_count = 0 THEN Number(0) ELSE TrueDiv(total_lines, file_count)

\* end_line - start_line of one function.
method_lines(node) ==
    LET start_line == node.lineno
        end_line == MaxOf({n.lineno : n \in {m \in Range(ast_walk(node)) : HasLineno(m)}},
                          0)
    IN  end_line - start_line

count_average_number_of_lines_per_method(trees) ==
    LET methods == SelectSeq(walk_all(trees),
                             LAMBDA n : n.kind = "FunctionDef" /\ n.body # <<>>)
        total_lines == Sum([i \in DOMAIN methods |-> method_lines(methods[i])])
        total_methods == Len(methods)
    IN  IF total_methods > 0 THEN TrueDiv(total_lines, total_methods) ELSE Number(0)

count_average_number_of_methods_per_class(trees) ==
    LET classes == class_nodes(trees)
        total_methods == Sum([i \in DOMAIN classes |-> Len(own_methods(classes[i]))])
        total_classes == Len(classes)
    IN  IF total_classes > 0 THEN TrueDiv(total_methods, total_classes) ELSE Number(0)

count_average_number_of_params_per_method_or_function(trees) ==
    LET functions == SelectSeq(walk_all(trees), LAMBDA n : n.kind = "FunctionDef")
        total_params == Sum([i \in DOMAIN functions |-> Len(functions[i].args.args)])
        total_functions == Len(functions)
    IN  IF total_functions > 0 THEN TrueDiv(total_params, total_functions)
        ELSE Number(0)

(***************************************************************************)
(* Inputs: up to MaxFiles files that hold up to MaxStmts top-level items   *)
(* between them.  An item is written on the lines of its text, and parsed  *)
(* to the node that starts on its first line.                              *)
(***************************************************************************)
Items == {"assign", "def_one_line", "def_one_param", "def_two_params",
          "async_def", "class_empty", "class_two_methods"}

\* The source lines of an item.
item_lines(item) ==
    CASE item = "assign" -> <<Line(0, "_a = x")>>
      [] item = "def_one_line" -> <<Line(0, "def func(): pass")>>
      [] item = "def_one_param" -> <<Line(0, "def func(a):"), Line(4, "pass")>>
      [] item = "def_two_params" ->
             <<Line(0, "def func(a, b):"), Line(4, "pass"), Line(0, ""),
               Line(4, "return x")>>
      [] item = "async_def" -> <<Line(0, "async def func(a):"), Line(4, "pass")>>
      [] item = "class_empty" -> <<Line(0, "class A: pass")>>
      [] item = "class_two_methods" ->
             <<Line(0, "class A:"), Line(4, "def test(self):"), Line(8, "pass"),
               Line(4, "def _private(self): pass")>>
      [] item = "class_two_attrs" ->
             <<Line(0, "class B(A):"), Line(4, "def method(self):"),
               Line(8, "self.x = 1"), Line(8, "return self.y")>>
      [] item = "static_typed" ->
             <<Line(0, "@staticmethod"), Line(0, "def typed(a: int) -> int:"),
               Line(4, "'doc'"), Line(4, "return a")>>
      [] item = "imports" ->
             <<Line(0, "import os, sys"), Line(0, "from os import path"),
               Line(0, "from . import x")>>
      [] item = "with_try" ->
             <<Line(0, "try:"), Line(4, "with x as f, x:"), Line(8, "pass"),
               Line(0, "except (KeyError, pkg.Error):"), Line(4, "pass"),
               Line(0, "except KeyError:"), Line(4, "pass")>>
      [] item = "const" -> <<Line(0, "MAX = 1"), Line(0, "MAX = 1")>>

\* The statements ast.parse makes of an item whose text starts on line l.
item_nodes(item, l) ==
    CASE item = "assign" -> <<At(Assign(<<At(Name("_a"), l)>>, At(X, l)), l)>>
      [] item = "def_one_line" -> <<At(FunctionDef("func", <<>>, <<At(Pass, l)>>), l)>>
      [] item = "def_one_param" ->
             <<Span(FunctionDef("func", <<At(Arg("a"), l)>>, <<At(Pass, l + 1)>>),
                    l, l + 1)>>
      [] item = "def_two_params" ->
             <<Span(FunctionDef("func", <<At(Arg("a"), l), At(Arg("b"), l)>>,
                                <<At(Pass, l + 1),
                                  At(Return(At(X, l + 3)), l + 3)>>), l, l + 3)>>
      [] item = "async_def" ->
             <<Span(AsyncFunctionDef("func", <<At(Arg("a"), l)>>,
                                     <<At(Pass, l + 1)>>), l, l + 1)>>
      [] item = "class_empty" -> <<At(ClassDef("A", <<>>, <<At(Pass, l)>>), l)>>
      [] item = "class_two_methods" ->
             <<Span(ClassDef("A", <<>>,
                      <<Span(FunctionDef("test", <<At(Arg("self"), l + 1)>>,
                                         <<At(Pass, l + 2)>>), l + 1, l + 2),
                        At(FunctionDef("_private", <<At(Arg("self"), l + 3)>>,
                                       <<At(Pass, l + 3)>>), l + 3)>>), l, l + 3)>>
      [] item = "class_two_attrs" ->
             <<Span(ClassDef("B", <<At(Name("A"), l)>>,
                      <<Span(FunctionDef("method", <<At(Arg("self"), l + 1)>>,
                               <<At(Assign(<<At(Self("x"), l + 2)>>,
                                           At(Num(1), l + 2)), l + 2),
                                 At(Return(At(Self("y"), l + 3)), l + 3)>>),
                             l + 1, l + 3)>>), l, l + 3)>>
      [] item = "static_typed" ->
             <<Span(SetField(SetField(
                      FunctionDef("typed",
                          <<SetField(At(Arg("a"), l + 1), "annotation",
                                     At(Name("int"), l + 1))>>,
                          <<At(Expr(At(Str("doc"), l + 2)), l + 2),
                            At(Return(At(Name("a"), l + 3)), l + 3)>>),
                      "decorator_list", <<At(Name("staticmethod"), l)>>),
                      "returns", At(Name("int"), l + 1)), l + 1, l + 3)>>
      [] item = "imports" ->
             <<At(Import(<<At(Alias("os"), l), At(Alias("sys"), l)>>), l),
               At(ImportFrom(<<"os">>, <<At(Alias("path"), l + 1)>>), l + 1),
               At(ImportFrom(<<>>, <<At(Alias("x"), l + 2)>>), l + 2)>>
      [] item = "with_try" ->
             <<Span(Try(<<Span(With(<<SetField(WithItem(At(X, l + 1)),
                                               "optional_vars",
                                               At(Name("f"), l + 1)),
                                      WithItem(At(X, l + 1))>>,
                                    <<At(Pass, l + 2)>>), l + 1, l + 2)>>,
                        <<Span(ExceptHandler(
                                   At(Tuple(<<At(Name("KeyError"), l + 3),
                                              At(Attribute(Name("pkg"), "Error"),
                                                 l + 3)>>), l + 3),
                                   <<At(Pass, l + 4)>>), l + 3, l + 4),
                          Span(ExceptHandler(At(Name("KeyError"), l + 5),
                                             <<At(Pass, l + 6)>>), l + 5, l + 6)>>,
                        <<>>, <<>>), l, l + 6)>>
      [] item = "const" ->
             <<At(Assign(<<At(Name("MAX"), l)>>, At(Num(1), l)), l),
               At(Assign(<<At(Name("MAX"), l + 1)>>, At(Num(1), l + 1)), l + 1)>>

\* The text of a file that holds the items one after the other.
RECURSIVE file_lines(_)
file_lines(items) ==
    IF items = <<>> THEN <<>> ELSE item_lines(Head(items)) \o file_lines(Tail(items))

\* The statements of the file's tree, the first item's text starting on line l.
RECURSIVE file_body(_, _)
file_body(items, l) ==
    IF items = <<>> THEN <<>>
    ELSE item_nodes(Head(items), l)
             \o file_body(Tail(items), l + Len(item_lines(Head(items))))

ItemFile(items) == TextFile(file_lines(items), Module(file_body(items, 1)))

\* The ways to cut a sequence of items into f files, in order.
RECURSIVE ItemSplits(_, _)
ItemSplits(items, f) ==
    IF f = 0 THEN (IF items = <<>> THEN {<<>>} ELSE {})
    ELSE UNION {{<<ItemFile(SubSeq(items, 1, k))>> \o rest :
                    rest \in ItemSplits(SubSeq(items, k + 1, Len(items)), f - 1)} :
                k \in 0..Len(items)}

\* A path below the repository root: the directories, then the file's name as
\* its stem and its suffix.
Path(dirs, stem, suffix) == [dirs |-> dirs, stem |-> stem, suffix |-> suffix]

\* The paths of the source files of a repository, in the order rglob lists them.
PathPool ==
    <<Path(<<>>, "a", ".py"), Path(<<>>, "b", ".py"), Path(<<"pkg">>, "c", ".py"),
      Path(<<"pkg", "sub">>, "d", ".py")>>

\* ExtPythonStats.__init__ on a repository of the given files: the paths, the
\* files behind them and their trees.
InitRepo(files) ==
    /\ py_files = SubSeq(PathPool, 1, Len(files))
    /\ disk = [p \in {PathPool[i] : i \in DOMAIN files} |->
                  files[CHOOSE i \in DOMAIN files : PathPool[i] = p]]
    /\ parsed_py_files = [i \in DOMAIN files |-> files[i].tree]

InitAvg ==
    /\ \E items \in SeqsUpTo(Items, MaxStmts) : \E f \in 0..MaxFiles :
           \E files \in ItemSplits(items, f) : InitRepo(files)
    /\ hash_seed = DefaultSeed
    /\ op = "init"
    /\ result = None
    /\ NoReport

Do_count_average_number_of_lines_per_file ==
    Returns("count_average_number_of_lines_per_file",
            count_average_number_of_lines_per_file(py_files, disk))

Do_count_average_number_of_lines_per_method ==
    Returns("count_average_number_of_lines_per_method",
            count_average_number_of_lines_per_method(parsed_py_files))

Do_count_average_number_of_methods_per_class ==
    Returns("count_average_number_of_methods_per_class",
            count_average_number_of_methods_per_class(parsed_py_files))

Do_count_average_number_of_params_per_method_or_function ==
    Returns("count_average_number_of_params_per_method_or_function",
            count_average_number_of_params_per_method_or_function(parsed_py_files))

NextAvg ==
    \/ Do_count_average_number_of_lines_per_file
    \/ Do_count_average_number_of_lines_per_method
    \/ Do_count_average_number_of_methods_per_class
    \/ Do_count_average_number_of_params_per_method_or_function

SpecAvg == InitAvg /\ [][NextAvg]_vars

\* How many nodes of the given class the trees hold.
nodes_of_kind(trees, kind) == Len(SelectSeq(walk_all(trees), LAMBDA n : n.kind = kind))

\* The number an average divides by.
denominator(method) ==
    CASE method = "count_average_number_of_lines_per_file" -> Len(py_files)
      [] method = "count_average_number_of_methods_per_class" ->
             nodes_of_kind(parsed_py_files, "ClassDef")
      [] OTHER -> nodes_of_kind(parsed_py_files, "FunctionDef")

AvgDone ==
    op \in {"count_average_number_of_lines_per_file",
            "count_average_number_of_lines_per_method",
            "count_average_number_of_methods_per_class",
            "count_average_number_of_params_per_method_or_function"}

\* C7: each of the four averages (lines per file, lines per method, methods
\* per class, parameters per method or function) returns 0, and no division
\* error, when the number it divides by is zero: no file, no tree, trees
\* without a function, trees without a class.
C7_ZeroDenominator == (AvgDone /\ denominator(op) = 0) => NumEq(result, 0)

\* A file that holds an assignment and an async function, so neither a class
\* nor a function the averages count, and the average of methods per class
\* computed on it.
C7_Witness ==
    /\ Len(py_files) = 1
    /\ Len(parsed_py_files[1].body) = 2
    /\ op = "count_average_number_of_methods_per_class"
    /\ denominator(op) = 0
    /\ NumEq(result, 0)

(***************************************************************************)
(* CodeStructuresMetrics                                                   *)
(***************************************************************************)
\* The nodes of all trees that are of one of the given classes.
nodes_in(trees, kinds) == SelectSeq(walk_all(trees), LAMBDA n : n.kind \in kinds)

count_number_of_classes(trees) == Len(nodes_in(trees, {"ClassDef"}))

count_number_of_methods_in_classes(trees) ==
    LET classes == class_nodes(trees)
    IN  Sum([i \in DOMAIN classes |-> Len(own_methods(classes[i]))])

count_number_of_static_methods_in_classes(trees) ==
    Len(SelectSeq(nodes_in(trees, {"FunctionDef"}),
                  LAMBDA n : \E d \in Range(decorator_list(n)) :
                                 d.kind = "Name" /\ d.id = "staticmethod"))

count_max_number_of_method_params(trees) ==
    MaxOf({0} \cup {Len(n.args.args) : n \in Range(nodes_in(trees, {"FunctionDef"}))},
          0)

\* end_line - start_line of one function; a node without lineno raises
\* AttributeError and is passed over.
method_length(node) ==
    IF HasLineno(node) THEN {GetField(node, "end_lineno", node.lineno) - node.lineno}
    ELSE {}

count_max_method_length(trees) ==
    MaxOf({0} \cup UNION {method_length(n) :
                             n \in Range(nodes_in(trees, {"FunctionDef",
                                                          "AsyncFunctionDef"}))},
          0)

count_number_of_decorators(trees) ==
    LET nodes == nodes_in(trees, {"FunctionDef", "AsyncFunctionDef", "ClassDef"})
    IN  Sum([i \in DOMAIN nodes |-> Len(decorator_list(nodes[i]))])

count_number_of_constants(trees) ==
    LET assigns == nodes_in(trees, {"Assign"})
    IN  Sum([i \in DOMAIN assigns |->
                Len(SelectSeq(assigns[i].targets,
                              LAMBDA t : t.kind = "Name"
                                             /\ assigns[i].value.kind = "Constant"))])

(***************************************************************************)
(* DependencyAndCouplingMetrics and ProjectFileStructureMetrics            *)
(***************************************************************************)
\* What one import statement adds to imported_libs; a module is held as a
\* list of one name, and the None of "from . import x" as the empty list.
imported_by(node) ==
    IF node.kind = "Import" THEN {<<alias.name>> : alias \in Range(node.names)}
    ELSE {node.module}

count_number_of_libs(trees) ==
    Cardinality(UNION {imported_by(n) :
                          n \in Range(nodes_in(trees, {"Import", "ImportFrom"}))})

\* Path.is_file()
is_file(path, fs) == path \in DOMAIN fs

get_all_file_extensions(files, fs) ==
    {file.suffix : file \in {f \in Range(files) : is_file(f, fs) /\ f.suffix # ""}}

\* path.relative_to(repo_path).parts
relative_parts(path) == path.dirs \o <<path.stem \o path.suffix>>

get_depth_of_the_project_file_system_tree(files) ==
    MaxOf({Len(relative_parts(path)) : path \in Range(files)}, 0)

(***************************************************************************)
(* MaintainabilityMetrics                                                  *)
(***************************************************************************)
\* inspect.cleandoc on the docstrings of the inputs: a text of white space
\* only cleans to the empty text.
cleandoc(text) == IF text \in {"", " ", "    "} THEN "" ELSE text

\* ast.get_docstring: the cleaned text as a list of one, or [] for None.
get_docstring(node) ==
    IF /\ node.body # <<>>
       /\ node.body[1].kind = "Expr"
       /\ node.body[1].value.kind = "Constant"
       /\ "str" \in DOMAIN node.body[1].value.value
    THEN <<cleandoc(node.body[1].value.value.str)>>
    ELSE <<>>

count_number_of_functions_or_methods_without_docstrings(trees) ==
    Len(SelectSeq(nodes_in(trees, {"FunctionDef", "AsyncFunctionDef"}),
                  LAMBDA n : get_docstring(n) \in {<<>>, <<"">>}))

\* posonlyargs + args + [vararg] + kwonlyargs + [kwarg]
all_args(args) ==
    GetField(args, "posonlyargs", <<>>) \o args.args
        \o OptNode(GetField(args, "vararg", None))
        \o GetField(args, "kwonlyargs", <<>>)
        \o OptNode(GetField(args, "kwarg", None))

has_typing(node) ==
    /\ \A arg \in Range(all_args(node.args)) : annotation(arg) # None
    /\ returns(node) # None

count_number_of_functions_or_methods_without_typing(trees) ==
    Len(SelectSeq(nodes_in(trees, {"FunctionDef"}), LAMBDA n : ~has_typing(n)))

count_number_of_context_managers(trees) ==
    LET withs == nodes_in(trees, {"With"})
    IN  Sum([i \in DOMAIN withs |-> Len(withs[i].items)])

\* ast.unparse of the expressions an except clause names.
RECURSIVE unparse(_)
unparse(node) ==
    CASE node.kind = "Name" -> node.id
      [] node.kind = "Attribute" -> unparse(node.value) \o "." \o node.attr

\* run_temp_try_handlers: what one handler adds to handled_exceptions.
handled_by(handler) ==
    IF handler.type = None THEN {}
    ELSE IF handler.type.kind = "Tuple"
    THEN {unparse(exc) : exc \in Range(handler.type.elts)}
    ELSE {unparse(handler.type)}

count_number_of_handled_exceptions(trees) ==
    LET tries == nodes_in(trees, {"Try"})
    IN  Cardinality(UNION {UNION {handled_by(h) : h \in Range(t.handlers)} :
                              t \in Range(tries)})

(***************************************************************************)
(* ReadabilityAndFormattingMetrics                                         *)
(***************************************************************************)
\* file.readlines() of every file, one after the other.
read_lines(files, fs) == Flatten([i \in DOMAIN files |-> fs[files[i]].lines])

\* [line for line in lines if line.strip()]
non_blank(lines) == SelectSeq(lines, LAMBDA line : line_strip(line) # "")

calculate_duplication_percentage(files, fs) ==
    LET lines == non_blank(read_lines(files, fs))
        total_lines == Len(lines)
        \* the lines met when code_lines_count already counts their text
        duplicated_lines ==
            Cardinality({i \in DOMAIN lines :
                            \E j \in 1..(i - 1) :
                                line_strip(lines[j]) = line_strip(lines[i])})
    IN  IF total_lines = 0 THEN Number(0)
        ELSE TrueDiv(duplicated_lines * 100 * 2, total_lines)

calculate_maximum_line_length(files, fs) ==
    MaxOf({-1} \cup {line_len(line) : line \in Range(read_lines(files, fs))}, -1)

count_lines_of_code(files, fs) == Len(non_blank(read_lines(files, fs)))

calculate_average_line_length(files, fs) ==
    LET lines == read_lines(files, fs)
        coded == non_blank(lines)
        sum_len == Sum([i \in DOMAIN coded |-> line_len(coded[i])])
        lines_num == Len(lines)
    IN  IF lines_num # 0 THEN TrueDiv(sum_len, lines_num) ELSE Number(0)

\* sum(len(name) for name in names) over a set of names.
RECURSIVE sum_len_set(_)
sum_len_set(names) ==
    IF names = {} THEN 0
    ELSE LET name == CHOOSE n \in names : TRUE
         IN  Len(name) + sum_len_set(names \ {name})

\* behave_func: the instance fields one method of a class assigns.
instance_fields(method) ==
    IF method.args.args = <<>> THEN {}
    ELSE LET self_arg_name == method.args.args[1].arg
             assigns == SelectSeq(ast_walk(method), LAMBDA n : n.kind = "Assign")
         IN  UNION {{t.attr : t \in {u \in Range(assigns[i].targets) :
                                        /\ u.kind = "Attribute"
                                        /\ u.value.kind = "Name"
                                        /\ u.value.id = self_arg_name}} :
                       i \in DOMAIN assigns}

\* behave_assign: the class fields the assignments of a class body name.
class_fields(node) ==
    LET assigns == SelectSeq(node.body, LAMBDA n : n.kind = "Assign")
    IN  UNION {{t.id : t \in {u \in Range(assigns[i].targets) : u.kind = "Name"}} :
                  i \in DOMAIN assigns}

\* current_methods and all_fields of one class.
class_method_names(node) == {m.name : m \in Range(own_methods(node))}

class_field_names(node) ==
    class_fields(node) \cup UNION {instance_fields(m) : m \in Range(own_methods(node))}

\* sum(len(n) for n in names) / len(names) if names else 0.0
average_length(total, count) == IF count # 0 THEN TrueDiv(total, count) ELSE Number(0)

calculate_average_identifier_length(trees) ==
    LET classes == class_nodes(trees)
    IN  [class |-> average_length(
                       Sum([i \in DOMAIN classes |-> Len(classes[i].name)]),
                       Len(classes)),
         method |-> average_length(
                       Sum([i \in DOMAIN classes |->
                               sum_len_set(class_method_names(classes[i]))]),
                       Sum([i \in DOMAIN classes |->
                               Cardinality(class_method_names(classes[i]))])),
         field |-> average_length(
                       Sum([i \in DOMAIN classes |->
                               sum_len_set(class_field_names(classes[i]))]),
                       Sum([i \in DOMAIN classes |->
                               Cardinality(class_field_names(classes[i]))]))]

count_number_pass_keywords(trees) == Len(nodes_in(trees, {"Pass"}))

(***************************************************************************)
(* CodeComplexityAndQualityMetrics: the metrics two libraries compute.     *)
(* radon's HalsteadVisitor and vulture's Vulture are not part of the       *)
(* program; what they return is held as a term of the text they read.      *)
(***************************************************************************)
\* HalsteadVisitor.from_code(code) parses the code it is given and raises
\* SyntaxError when it does not parse.
HalsteadVisitor(file) ==
    IF file.tree = SyntaxError THEN SyntaxError
    ELSE [visitor |-> "HalsteadVisitor", code |-> file.lines]

\* halstead_metrics after the first k files, none of which failed.
RECURSIVE halstead_files(_, _, _)
halstead_files(files, fs, k) ==
    IF k = 0 THEN <<>>
    ELSE LET visitor == HalsteadVisitor(fs[files[k]])
         IN  MapSet(halstead_files(files, fs, k - 1), files[k],
                    [n1 |-> <<"distinct_operators", visitor>>,
                     n2 |-> <<"distinct_operands", visitor>>,
                     N1 |-> <<"operators", visitor>>,
                     N2 |-> <<"operands", visitor>>])

\* The loop has no handler: the first file whose analysis fails raises out of
\* the method.
calculate_halstead_complexity(files, fs) ==
    IF \E i \in DOMAIN files : HalsteadVisitor(fs[files[i]]) = SyntaxError
    THEN SyntaxError
    ELSE halstead_files(files, fs, Len(files))

\* v.scavenge(py_files); v.get_unused_code()
find_dead_code(files, fs) ==
    [vulture |-> "get_unused_code",
     scavenged |-> [i \in DOMAIN files |-> fs[files[i]].lines]]

(***************************************************************************)
(* value() and available_metrics() of the nine analyzers                   *)
(***************************************************************************)
\* result_metrics after result_metrics[key] = value for the pairs in order.
RECURSIVE DictFrom(_)
DictFrom(pairs) ==
    IF pairs = <<>> THEN EmptyDict
    ELSE LET last == pairs[Len(pairs)]
         IN  DictSet(DictFrom(SubSeq(pairs, 1, Len(pairs) - 1)), last[1], last[2])

CodeStructuresMetrics_value(trees) ==
    DictFrom(<<
        <<"Number of Classes", count_number_of_classes(trees)>>,
        <<"Number of Methods", count_number_of_methods_in_classes(trees)>>,
        <<"Number of Static Methods", count_number_of_static_methods_in_classes(trees)>>,
        <<"Maximum Number of Method Parameters",
          count_max_number_of_method_params(trees)>>,
        <<"Maximum Method Length", count_max_method_length(trees)>>,
        <<"Number of Decorators", count_number_of_decorators(trees)>>,
        <<"Number of Public Constants in File", count_number_of_constants(trees)>> >>)

DependencyAndCouplingMetrics_value(trees, all, fs) ==
    DictFrom(<<
        <<"Number of Libraries", count_number_of_libs(trees)>>,
        <<"Number of Extensions in the Project", get_all_file_extensions(all, fs)>> >>)

\* As CBOMetric_value, under the key of another analyzer.
CBOMetric_value_as_lcom(trees) ==
    DictFrom(<< <<"LCOM", count_coupling_between_objects(trees)>> >>)

CBOMetric_value(trees) ==
    DictFrom(<< <<"Coupling Between Objects", count_coupling_between_objects(trees)>> >>)

ProjectFileStructureMetrics_value(all) ==
    DictFrom(<<
        <<"Number of Files in the Project", Len(all)>>,
        <<"Depth of the Project File System Tree",
          get_depth_of_the_project_file_system_tree(all)>> >>)

AverageBasedMetrics_value(trees, files, fs) ==
    DictFrom(<<
        <<"Average Number of Lines per File",
          count_average_number_of_lines_per_file(files, fs)>>,
        <<"Average Number of Lines per Method",
          count_average_number_of_lines_per_method(trees)>>,
        <<"Average Number of Methods per Class",
          count_average_number_of_methods_per_class(trees)>>,
        <<"Average Number of Parameters per Method/Function",
          count_average_number_of_params_per_method_or_function(trees)>> >>)

MaintainabilityMetrics_value(trees) ==
    DictFrom(<<
        <<"Number of Functions or Methods Without Docstrings",
          count_number_of_functions_or_methods_without_docstrings(trees)>>,
        <<"Number of Functions or Methods Without Typing",
          count_number_of_functions_or_methods_without_typing(trees)>>,
        <<"Number of Context Managers", count_number_of_context_managers(trees)>>,
        <<"Number of Handled Exceptions", count_number_of_handled_exceptions(trees)>> >>)

ClassMetrics_value(trees) ==
    DictFrom(<<
        <<"Method Hiding Factor", calculate_method_hiding_factor(trees)>>,
        <<"Attribute Hiding Factor", calculate_attribute_hiding_factor(trees)>>,
        <<"Method Inheritance Factor", calculate_method_inheritance_factor(trees)>>,
        <<"Polymorphism Factor", calculate_method_polymorphism_factor(trees)>>,
        <<"Depth Of Inheritance Tree", calculate_depth_of_inheritance_tree(trees)>> >>)

ReadabilityAndFormattingMetrics_value(trees, files, fs) ==
    DictFrom(<<
        <<"Duplication Percentage", calculate_duplication_percentage(files, fs)>>,
        <<"Maximum py Line Length", calculate_maximum_line_length(files, fs)>>,
        <<"Lines of Code", count_lines_of_code(files, fs)>>,
        <<"Average Line Length", calculate_average_line_length(files, fs)>>,
        <<"Average Identifier Length", calculate_average_identifier_length(trees)>>,
        <<"Number of pass keywords", count_number_pass_keywords(trees)>> >>)

CodeComplexityAndQualityMetrics_value(trees, files, fs, seed) ==
    DictFrom(<<
        <<"Cyclomatic Complexity", calculate_cyclomatic_complexity(files, fs)>>,
        <<"Halstead Complexity", calculate_halstead_complexity(files, fs)>>,
        <<"LCOM", calculate_lcom(trees, seed)>>,
        <<"Dead code: unused objects", find_dead_code(files, fs)>> >>)

\* The analyzers in the order report() calls them.
Analyzers ==
    <<"CodeStructuresMetrics", "DependencyAndCouplingMetrics", "CBOMetric",
      "ProjectFileStructureMetrics", "AverageBasedMetrics", "MaintainabilityMetrics",
      "ClassMetrics", "ReadabilityAndFormattingMetrics",
      "CodeComplexityAndQualityMetrics">>

\* <Analyzer>().value(...) with the arguments report() passes.
value(analyzer, trees, files, all, fs, seed) ==
    CASE analyzer = "CodeStructuresMetrics" -> CodeStructuresMetrics_value(trees)
      [] analyzer = "DependencyAndCouplingMetrics" ->
             DependencyAndCouplingMetrics_value(trees, all, fs)
      [] analyzer = "CBOMetric" -> CBOMetric_value(trees)
      [] analyzer = "ProjectFileStructureMetrics" ->
             ProjectFileStructureMetrics_value(all)
      [] analyzer = "AverageBasedMetrics" -> AverageBasedMetrics_value(trees, files, fs)
      [] analyzer = "MaintainabilityMetrics" -> MaintainabilityMetrics_value(trees)
      [] analyzer = "ClassMetrics" -> ClassMetrics_value(trees)
      [] analyzer = "ReadabilityAndFormattingMetrics" ->
             ReadabilityAndFormattingMetrics_value(trees, files, fs)
      [] analyzer = "CodeComplexityAndQualityMetrics" ->
             CodeComplexityAndQualityMetrics_value(trees, files, fs, seed)

available_metrics(analyzer) ==
    CASE analyzer = "CodeStructuresMetrics" ->
             <<"Number of Classes", "Number of Methods", "Number of Static Methods",
               "Maximum Number of Method Parameters", "Maximum Method Length",
               "Number of Decorators", "Number of Public Constants in File">>
      [] analyzer = "DependencyAndCouplingMetrics" ->
             <<"Number of Libraries", "Number of Extensions in the Project">>
      [] analyzer = "CBOMetric" -> <<"Coupling between objects">>
      [] analyzer = "ProjectFileStructureMetrics" ->
             <<"Number of Files in the Project",
               "Depth of the Project File System Tree">>
      [] analyzer = "AverageBasedMetrics" ->
             <<"Average Number of Lines per File", "Average Number of Lines per Method",
               "Average Number of Methods per Class",
               "Average Number of Parameters per Method/Function">>
      [] analyzer = "MaintainabilityMetrics" ->
             <<"Number of Deprecated Methods",
               "Number of Functions or Methods Without Docstrings",
               "Number of Functions or Methods Without Typing",
               "Number of Context Managers", "Number of Handled Exceptions">>
      [] analyzer = "ClassMetrics" ->
             <<"Method Hiding Factor", "Attribute Hiding Factor",
               "Method Inheritance Factor", "Depth Of Inheritance Tree">>
      [] analyzer = "ReadabilityAndFormattingMetrics" ->
             <<"Duplication Percentage", "Maximum Line Length", "Lines of Code",
               "Average Line Length", "Average Identifier Length",
               "Number of pass keywords">>
      [] analyzer = "CodeComplexityAndQualityMetrics" ->
             <<"Cyclomatic Complexity", "Halstead Complexity", "LCOM",
               "Dead code: unused objects">>

(***************************************************************************)
(* ExtPythonStats: __init__ and report()                                   *)
(***************************************************************************)
\* {**a, **b}: the keys of a, then the keys only b holds; b's value where
\* both hold a key.
DictMerge(a, b) ==
    [keys |-> a.keys \o SelectSeq(b.keys, LAMBDA k : k \notin Range(a.keys)),
     val |-> b.val @@ a.val]

\* result_metrics_dict after the first k analyzers were merged into it.
RECURSIVE report_merged(_, _, _, _, _, _, _)
report_merged(k, start, trees, files, all, fs, seed) ==
    IF k = 0 THEN DictSet(EmptyDict, "worktime", start)
    ELSE DictMerge(report_merged(k - 1, start, trees, files, all, fs, seed),
                   value(Analyzers[k], trees, files, all, fs, seed))

\* report() that reads the clock as start when it begins and as now when it ends.
report(start, now, trees, files, all, fs, seed) ==
    LET merged == report_merged(Len(Analyzers), start, trees, files, all, fs, seed)
    IN  DictSet(merged, "worktime", now - merged.val["worktime"])

\* The directory names of python_ext_stats.config.VENV_DIRS.
VENV_DIRS == {"venv", ".venv"}

\* any(part in VENV_DIRS for part in f.parts)
in_venv(path) == \E part \in Range(relative_parts(path)) : part \in VENV_DIRS

\* Files that are no source: their paths in the order rglob lists them.
ExtraPaths ==
    <<Path(<<>>, "README", ".md"), Path(<<>>, "Makefile", ""),
      Path(<<"docs", "img", "raw">>, "logo", ".png"),
      Path(<<"venv", "lib">>, "site", ".py")>>

\* repo_path.rglob("*"): every path under the root, in the directory's order.
rglob(fs) == SelectSeq(PathPool \o ExtraPaths, LAMBDA path : path \in DOMAIN fs)

\* The trees __init__ has parsed when it ends: all of them, or those before
\* the first file that does not parse.
RECURSIVE parse_files(_, _)
parse_files(files, fs) ==
    IF files = <<>> \/ fs[Head(files)].tree = SyntaxError THEN <<>>
    ELSE <<fs[Head(files)].tree>> \o parse_files(Tail(files), fs)

(***************************************************************************)
(* Inputs: a repository of up to MaxFiles source files with one item each, *)
(* one of which may not parse, alone or beside files that are no source.   *)
(***************************************************************************)
ReportItems ==
    {"class_two_attrs", "class_two_methods", "static_typed", "imports", "with_try",
     "const", "def_two_params", "syntax_error"}

\* The file that holds the item.
ReportFile(item) ==
    IF item = "syntax_error" THEN TextFile(<<Line(0, "def (:")>>, SyntaxError)
    ELSE ItemFile(<<item>>)

\* The file system of a repository with the given source files and extra paths.
Repository(items, extras) ==
    [path \in {PathPool[i] : i \in DOMAIN items} \cup Range(extras) |->
        IF path \in Range(extras) THEN ItemFile(<<"assign">>)
        ELSE ReportFile(items[CHOOSE i \in DOMAIN items : PathPool[i] = path])]

InitReport ==
    /\ \E items \in SeqsUpTo(ReportItems, MaxFiles) : \E extras \in {<<>>, ExtraPaths} :
           disk = Repository(items, extras)
    /\ parsed_py_files = <<>>
    /\ py_files = <<>>
    /\ all_files = <<>>
    /\ hash_seed = DefaultSeed
    /\ clock = 0
    /\ reports = <<>>
    /\ value_calls = <<>>
    /\ written = <<>>
    /\ op = "start"
    /\ result = None

\* As init_outcome, the constructor going on past a file that does not parse.
init_outcome_going_on(parsed, files) == "__init__"

\* How __init__ ends: it returns, or sys.exit() ends the process at the first
\* file that does not parse.
init_outcome(parsed, files) == IF Len(parsed) = Len(files) THEN "__init__" ELSE "exit"

\* A process starts with a hash seed of its own and constructs ExtPythonStats
\* on the repository; a file that does not parse ends the process.
Do_ExtPythonStats ==
    /\ op \in {"start", "report"}
    /\ Len(reports) < MaxReports
    /\ hash_seed' \in Perms(AttrNames)
    /\ all_files' = SelectSeq(rglob(disk),
                              LAMBDA f : is_file(f, disk) /\ ~in_venv(f))
    /\ py_files' = SelectSeq(rglob(disk), LAMBDA f : f.suffix = ".py" /\ ~in_venv(f))
    /\ parsed_py_files' = parse_files(py_files', disk)
    /\ op' = init_outcome(parsed_py_files', py_files')
    /\ result' = None
    /\ UNCHANGED <<disk, clock, reports, value_calls, written>>

\* report() on the constructed object; the clock moves on while it runs.
Do_report ==
    /\ op \in {"__init__", "report"}
    /\ Len(reports) < MaxReports
    /\ \E elapsed \in 0..MaxElapsed : clock' = clock + elapsed
    /\ result' = report(clock, clock', parsed_py_files, py_files, all_files, disk,
                        hash_seed)
    /\ reports' = Append(reports, result')
    /\ op' = "report"
    /\ UNCHANGED <<parsed_py_files, py_files, all_files, disk, hash_seed, value_calls,
                   written>>

NextReport == Do_ExtPythonStats \/ Do_report

SpecReport == InitReport /\ [][NextReport]_vars

\* One run of the tool, as main() makes it: construct, then report once.
NextRun ==
    \/ op = "start" /\ Do_ExtPythonStats
    \/ op = "__init__" /\ Do_report

SpecRun == InitReport /\ [][NextRun]_vars

(***************************************************************************)
(* The reports of a repository.                                            *)
(***************************************************************************)
\* What the analyzer returns on the object report() runs on.
value_now(analyzer) ==
    value(analyzer, parsed_py_files, py_files, all_files, disk, hash_seed)

\* What the nine analyzers return, in the order report() calls them.
returned_now == <<>> \o [a \in DOMAIN Analyzers |-> value_now(Analyzers[a])]

\* The keys of a dict, as a set.
keys_of(d) == Range(d.keys)

\* The repository holds a class whose methods use two attributes of self.
TwoAttributesUsed ==
    \E path \in DOMAIN disk : disk[path] = ReportFile("class_two_attrs")

\* C8: two reports of the same unmodified repository hold the same keys, and
\* the same value under every key except "worktime".
C8_ReportsAgree ==
    \A i \in DOMAIN reports : \A j \in DOMAIN reports :
        /\ keys_of(reports[i]) = keys_of(reports[j])
        /\ \A k \in keys_of(reports[i]) \ {"worktime"} :
               reports[i].val[k] = reports[j].val[k]

\* C9: the key sets of the nine analyzers report() calls are pairwise
\* disjoint and none holds "worktime"; the keys of the report are the union
\* of the nine key sets and "worktime", and the report holds under every key
\* of an analyzer the value that analyzer returned.
C9_DisjointKeys ==
    op = "report" =>
        LET returned == returned_now
            keys == [a \in DOMAIN Analyzers |-> keys_of(returned[a])]
        IN  /\ \A a \in DOMAIN Analyzers : \A b \in DOMAIN Analyzers :
                   a # b => keys[a] \cap keys[b] = {}
            /\ \A a \in DOMAIN Analyzers : "worktime" \notin keys[a]
            /\ keys_of(result) =
                   UNION {keys[a] : a \in DOMAIN Analyzers} \cup {"worktime"}
            /\ \A a \in DOMAIN Analyzers : \A k \in keys[a] :
                   result.val[k] = returned[a].val[k]

\* A report of two source files beside files that are no source, one of the
\* two a class with two attributes: 35 metrics and the work time.
C9_Witness ==
    /\ op = "report"
    /\ Len(py_files) = 2
    /\ Len(all_files) = 5
    /\ TwoAttributesUsed
    /\ Len(result.keys) = 36
    /\ result.val["Number of Classes"] >= 1
    /\ result.val["worktime"] = MaxElapsed

\* C10: for every analyzer, the names available_metrics() returns are the
\* keys of the dict value() returns, letter for letter.
C10_AdvertisedIsProduced ==
    op = "report" =>
        \A a \in DOMAIN Analyzers :
            Range(available_metrics(Analyzers[a])) = keys_of(returned_now[a])

(***************************************************************************)
(* A source file that does not parse.                                      *)
(***************************************************************************)
\* The source files of the repository that parse, in the order __init__ reads them.
parseable_files ==
    SelectSeq(rglob(disk),
              LAMBDA f : f.suffix = ".py" /\ ~in_venv(f) /\ disk[f].tree # SyntaxError)

\* A source file of the repository does not parse.
SomeFileFailsToParse ==
    \E f \in Range(rglob(disk)) :
        f.suffix = ".py" /\ ~in_venv(f) /\ disk[f].tree = SyntaxError

\* C11: when a source file fails to parse, the run skips it and continues:
\* the object is constructed with the trees of the files that parse, and the
\* run goes on to its report instead of ending.
C11_SkipsUnparseableFile ==
    (op # "start" /\ SomeFileFailsToParse) =>
        /\ op \in {"__init__", "report"}
        /\ parsed_py_files = [i \in DOMAIN parseable_files |-> disk[parseable_files[i]].tree]

(***************************************************************************)
(* calculate_halstead_complexity on a list of files, some of which fail    *)
(***************************************************************************)
InitHalstead ==
    /\ \E items \in SeqsUpTo(ReportItems, MaxFiles) :
           /\ py_files = SubSeq(PathPool, 1, Len(items))
           /\ disk = Repository(items, <<>>)
    /\ parsed_py_files = <<>>
    /\ hash_seed = DefaultSeed
    /\ op = "init"
    /\ result = None
    /\ NoReport

\* The method returns, or raises what the analysis of a file raised.
Do_calculate_halstead_complexity ==
    LET returned == calculate_halstead_complexity(py_files, disk)
        raised == \E f \in Range(py_files) : HalsteadVisitor(disk[f]) = SyntaxError
    IN  /\ op = "init"
        /\ op' = IF raised THEN "raise" ELSE "calculate_halstead_complexity"
        /\ result' = returned
        /\ UNCHANGED <<parsed_py_files, py_files, all_files, disk, hash_seed, clock,
                       reports, value_calls, written>>

NextHalstead == Do_calculate_halstead_complexity

SpecHalstead == InitHalstead /\ [][NextHalstead]_vars

\* The files of the list whose Halstead analysis fails.
failing_files == {f \in Range(py_files) : HalsteadVisitor(disk[f]) = SyntaxError}

\* C12: calculate_halstead_complexity skips a file whose analysis fails: it
\* returns, and its result holds an entry for every other file of the list.
C12_HalsteadSkipsFailingFile ==
    (op # "init" /\ failing_files # {}) =>
        /\ op = "calculate_halstead_complexity"
        /\ DOMAIN result = Range(py_files) \ failing_files

(***************************************************************************)
(* ReadabilityAndFormattingMetrics on the text of the files.               *)
(* Inputs: up to MaxLines lines, cut into up to MaxFiles files; a line is  *)
(* one of two statements, indented or not, or blank with or without white  *)
(* space.                                                                  *)
(***************************************************************************)
MaxLines == 3

TextLines ==
    {Line(0, "x = 1"), Line(4, "x = 1"), Line(0, "pass"), Line(0, ""), Line(4, "")}

\* A file of which only the text is read.
Text(lines) == [lines |-> lines]

\* The ways to cut a sequence of lines into f files, in order.
RECURSIVE TextSplits(_, _)
TextSplits(lines, f) ==
    IF f = 0 THEN (IF lines = <<>> THEN {<<>>} ELSE {})
    ELSE UNION {{<<Text(SubSeq(lines, 1, k))>> \o rest :
                    rest \in TextSplits(SubSeq(lines, k + 1, Len(lines)), f - 1)} :
                k \in 0..Len(lines)}

InitReadability ==
    /\ \E lines \in SeqsUpTo(TextLines, MaxLines) : \E f \in 0..MaxFiles :
           \E files \in TextSplits(lines, f) :
               /\ py_files = SubSeq(PathPool, 1, Len(files))
               /\ disk = [p \in {PathPool[i] : i \in DOMAIN files} |->
                             files[CHOOSE i \in DOMAIN files : PathPool[i] = p]]
    /\ parsed_py_files = <<>>
    /\ hash_seed = DefaultSeed
    /\ op = "init"
    /\ result = None
    /\ NoReport

Do_calculate_duplication_percentage ==
    Returns("calculate_duplication_percentage",
            calculate_duplication_percentage(py_files, disk))

Do_calculate_maximum_line_length ==
    Returns("calculate_maximum_line_length",
            calculate_maximum_line_length(py_files, disk))

Do_count_lines_of_code ==
    Returns("count_lines_of_code", count_lines_of_code(py_files, disk))

Do_calculate_average_line_length ==
    Returns("calculate_average_line_length",
            calculate_average_line_length(py_files, disk))

NextReadability ==
    \/ Do_calculate_duplication_percentage
    \/ Do_calculate_maximum_line_length
    \/ Do_count_lines_of_code
    \/ Do_calculate_average_line_length

SpecReadability == InitReadability /\ [][NextReadability]_vars

\* The stripped non-blank lines of all files, in reading order.
stripped_lines ==
    LET lines == Flatten([i \in DOMAIN py_files |-> disk[py_files[i]].lines])
        texts == [i \in DOMAIN lines |-> lines[i].text]
    IN  SelectSeq(texts, LAMBDA text : text # "")

\* How many of those lines repeat a line read before them.
repeating_lines ==
    Cardinality({i \in DOMAIN stripped_lines :
                    \E j \in 1..(i - 1) : stripped_lines[j] = stripped_lines[i]})

\* a / b = c / d, for fractions with positive denominators
SameNumber(v, w) == IsNumber(v) /\ IsNumber(w) /\ v.num * w.den = w.num * v.den

\* C13: calculate_duplication_percentage returns duplicated / total x 100,
\* total the number of non-blank stripped lines of all files and duplicated
\* the number of them that repeat a line already seen; 0 when total is 0.
C13_DuplicationPercentage ==
    op = "calculate_duplication_percentage" =>
        IF Len(stripped_lines) = 0 THEN NumEq(result, 0)
        ELSE SameNumber(result, TrueDiv(repeating_lines * 100, Len(stripped_lines)))

\* C14: the value calculate_duplication_percentage returns lies between 0
\* and 100 inclusive.
C14_DuplicationInRange ==
    op = "calculate_duplication_percentage" =>
        /\ IsNumber(result)
        /\ 0 <= result.num
        /\ result.num <= 100 * result.den

(***************************************************************************)
(* The factors of ClassMetrics on classes with bases.                      *)
(* Inputs: a class Child with no base, one base, two bases or a base       *)
(* written as an attribute, after the classes it may derive from: Base,    *)
(* a class Other with a method of the same name, a second class named      *)
(* Base; in one file or cut into several.  The body of Child holds up to   *)
(* MaxStmts statements, among them an assignment with two targets.         *)
(***************************************************************************)
Method(name) == FunctionDef(name, <<Arg("self")>>, <<Pass>>)

FactorStmts ==
    {Pass, Method("run"), Method("_private"),
     Assign(<<Name("_a"), Name("_b")>>, X),
     Assign(<<Name("x")>>, X),
     AnnAssign(Name("_b"), Name("int"))}

FactorBases ==
    {<<>>, <<Name("Base")>>, <<Name("Base"), Name("Other")>>,
     <<Attribute(Name("pkg"), "Base")>>}

BaseRunStop == ClassDef("Base", <<>>, <<Method("run"), Method("stop")>>)
BaseRun == ClassDef("Base", <<>>, <<Method("run")>>)
OtherRun == ClassDef("Other", <<>>, <<Method("run")>>)

FactorDeclared ==
    {<<>>, <<BaseRunStop>>, <<BaseRunStop, OtherRun>>, <<BaseRun, OtherRun>>,
     <<BaseRunStop, BaseRun>>}

InitFactors ==
    /\ \E body \in SeqsUpTo(FactorStmts, MaxStmts) \ {<<>>}, bs \in FactorBases,
          declared \in FactorDeclared :
           parsed_py_files \in
               Layouts(declared \o <<ClassDef("Child", bs, body)>>, MaxFiles)
    /\ py_files = <<>>
    /\ disk = <<>>
    /\ hash_seed = DefaultSeed
    /\ op = "init"
    /\ result = None
    /\ NoReport

NextFactors ==
    \/ Do_calculate_attribute_hiding_factor
    \/ Do_calculate_method_inheritance_factor
    \/ Do_calculate_method_polymorphism_factor

SpecFactors == InitFactors /\ [][NextFactors]_vars

\* The names assigned or annotated directly in the class bodies, one entry
\* per target.
declared_attributes ==
    LET body == class_body_nodes(parsed_py_files)
        targets(stmt) ==
            IF stmt.kind = "Assign" THEN stmt.targets
            ELSE IF stmt.kind = "AnnAssign" THEN <<stmt.target>>
            ELSE <<>>
    IN  Flatten([i \in DOMAIN body |-> targets(body[i])])

\* v lies between 0 and 1 inclusive.
IsRatio(v) == IsNumber(v) /\ 0 <= v.num /\ v.num <= v.den

\* C15: the attribute-hiding factor is the ratio of the underscore-prefixed
\* attributes to all attributes assigned or annotated directly in class
\* bodies, lies between 0 and 1, and is 0 when no class declares an attribute.
C15_AttributeHidingFactor ==
    op = "calculate_attribute_hiding_factor" =>
        LET attrs == declared_attributes
            hidden == SelectSeq(attrs,
                                LAMBDA t : t.kind = "Name" /\ startswith_underscore(t.id))
        IN  /\ IsRatio(result)
            /\ IF attrs = <<>> THEN NumEq(result, 0)
               ELSE SameNumber(result, TrueDiv(Len(hidden), Len(attrs)))

\* The classes of the repository, and the methods of those named among the
\* bases of the class, one entry per declaration, whatever file declares them.
repository_base_methods(node) ==
    LET bases == SelectSeq(class_nodes(parsed_py_files),
                           LAMBDA n : n.name \in Range(mif_base_names(node)))
    IN  Flatten([i \in DOMAIN bases |-> own_methods(bases[i])])

\* The classes whose name no other class of the repository bears.
uniquely_named_classes ==
    LET nodes == class_nodes(parsed_py_files)
    IN  {nodes[i] : i \in {i \in DOMAIN nodes :
                              \A j \in DOMAIN nodes : nodes[j].name = nodes[i].name => j = i}}

\* C16: the method-inheritance factor of a class counts as inherited the
\* methods of each of its bases declared anywhere in the repository, in the
\* same file or in another, and divides by the size of the union of its own
\* and the inherited methods; it is 0 when the union is empty.
C16_InheritanceAcrossFiles ==
    op = "calculate_method_inheritance_factor" =>
        \A node \in uniquely_named_classes :
            LET inherited == repository_base_methods(node)
                all_methods == {m.name : m \in Range(own_methods(node))}
                                   \cup {m.name : m \in Range(inherited)}
            IN  IF all_methods = {} THEN NumEq(result[node.name], 0)
                ELSE SameNumber(result[node.name],
                                TrueDiv(Len(inherited), Cardinality(all_methods)))

\* C17: the method-inheritance factor and the polymorphism factor of every
\* class lie between 0 and 1 inclusive.
C17_FactorsInRange ==
    op \in {"calculate_method_inheritance_factor",
            "calculate_method_polymorphism_factor"} =>
        \A name \in DOMAIN result : IsRatio(result[name])

(***************************************************************************)
(* count_coupling_between_objects on primitives, dotted names and the      *)
(* class's own name.  Inputs: ClassB with up to MaxBases bases and up to   *)
(* MaxCalls calls, next to ClassA in the same file, in another, or nowhere.*)
(***************************************************************************)
CouplingBaseForms ==
    {Name("ClassA"), Attribute(Name("pkg"), "ClassA"), Name("int"),
     Attribute(Name("builtins"), "int"), Name("ClassB")}

CouplingCallForms ==
    {Name("ClassA"), Name("int"), Name("ClassB"),
     Attribute(Name("ClassA"), "build"),
     Attribute(Attribute(Name("self"), "a"), "method_a")}

InitCoupling ==
    /\ \E bs \in SeqsUpTo(CouplingBaseForms, MaxBases),
          fs \in SeqsUpTo(CouplingCallForms, MaxCalls) :
           parsed_py_files \in CBORepos(CBOClassB(bs, fs))
    /\ py_files = <<>>
    /\ disk = <<>>
    /\ hash_seed = DefaultSeed
    /\ op = "init"
    /\ result = None
    /\ NoReport

NextCoupling == Do_count_coupling_between_objects

SpecCoupling == InitCoupling /\ [][NextCoupling]_vars

\* The functions the class calls, as written.
called_funcs(node) == {c.func : c \in calls_in(node)}

\* The names called as plain names, primitives left out.
plain_calls(node) ==
    {<<func.id>> : func \in {f \in called_funcs(node) : f.kind = "Name"}} \ builtins

\* The names at the root of the attribute chains the class calls.
chain_roots(node) ==
    {<<attr_root(func).id>> :
        func \in {f \in called_funcs(node) :
                     f.kind = "Attribute" /\ attr_root(f).kind = "Name"}}

\* C18: the primitive names never contribute to a class's CBO, as a base or
\* called, and a call through an attribute chain contributes exactly when
\* the name at the root of the chain is a class declared in the same tree.
C18_PrimitivesAndChainCalls ==
    CBODone =>
        \A name \in DOMAIN result :
            LET c == last_class(parsed_py_files, name)
                chains == (chain_roots(c.node) \cap add_module_classes(c.tree))
                              \ builtins
            IN  result[name] =
                    Cardinality(add_bases_names(c.node) \cup plain_calls(c.node)
                                    \cup chains)

\* The bases of the class by the last component of their dotted name,
\* primitives left out.
final_component_bases(node) ==
    {<<n[Len(n)]>> : n \in UNION {full_names(node.bases[i]) : i \in DOMAIN node.bases}}
        \ builtins

\* C19: a base written as an attribute chain is resolved to its final
\* component before it is counted or compared with the primitives: bases
\* pkg.ClassA and ClassA count once, and a base builtins.int counts nothing.
C19_BasesByFinalComponent ==
    CBODone =>
        \A name \in DOMAIN result :
            LET c == last_class(parsed_py_files, name)
            IN  result[name] =
                    Cardinality(final_component_bases(c.node)
                                    \cup cbo_call_names(c.node, add_module_classes(c.tree)))

\* C20: CBO counts only types other than the class itself: the class's own
\* name, called in its body or listed among its bases, contributes nothing.
C20_OwnNameNotCounted ==
    CBODone =>
        \A name \in DOMAIN result :
            LET c == last_class(parsed_py_files, name)
            IN  result[name] =
                    Cardinality((add_bases_names(c.node)
                                    \cup cbo_call_names(c.node, add_module_classes(c.tree)))
                                \ {<<name>>})

(***************************************************************************)
(* The lengths of functions: count_max_method_length and                   *)
(* count_average_number_of_lines_per_method on the files of items.         *)
(***************************************************************************)
Do_count_max_method_length ==
    Returns("count_max_method_length", count_max_method_length(parsed_py_files))

NextLength ==
    \/ Do_count_max_method_length
    \/ Do_count_average_number_of_lines_per_method

SpecLength == InitAvg /\ [][NextLength]_vars

\* The lines the body of a function spans, first and last included.
body_span(node) == node.end_lineno - node.body[1].lineno + 1

\* The lines a function spans from its def line, first and last included.
def_span(node) == node.end_lineno - node.lineno + 1

\* C21: count_max_method_length returns the largest number of lines spanned
\* by the body of a function, counted inclusively (1 for a function written
\* on one line), and 0 only when there is no function.
C21_MaxMethodLength ==
    op = "count_max_method_length" =>
        LET functions == nodes_in(parsed_py_files, {"FunctionDef", "AsyncFunctionDef"})
        IN  /\ result = MaxOf({body_span(n) : n \in Range(functions)}, 0)
            /\ result = 0 <=> functions = <<>>

\* C22: count_average_number_of_lines_per_method returns the mean, over all
\* functions, of the lines from the def line through the last line
\* inclusive (last line - def line + 1).
C22_AverageLinesPerMethod ==
    op = "count_average_number_of_lines_per_method" =>
        LET functions == nodes_in(parsed_py_files, {"FunctionDef"})
            total == Sum([i \in DOMAIN functions |-> def_span(functions[i])])
        IN  IF functions = <<>> THEN NumEq(result, 0)
            ELSE SameNumber(result, TrueDiv(total, Len(functions)))

\* The non-blank lines of all files, in reading order.
coded_lines == non_blank(read_lines(py_files, disk))

\* C23: calculate_average_line_length leaves blank lines out of the summed
\* length and out of the line count: it returns the total length of the
\* non-blank lines over their number, whatever blank lines the files hold.
C23_AverageLineLength ==
    op = "calculate_average_line_length" =>
        IF coded_lines = <<>> THEN NumEq(result, 0)
        ELSE SameNumber(result,
                        TrueDiv(Sum([i \in DOMAIN coded_lines |-> line_len(coded_lines[i])]),
                                Len(coded_lines)))

(***************************************************************************)
(* The analyzers called on one constructed object, in any order and any    *)
(* number of times up to MaxValueCalls.                                    *)
(***************************************************************************)
MaxValueCalls == 3

AnalyzerItems == {"class_two_attrs", "with_try"}

InitAnalyzers ==
    /\ \E items \in SeqsUpTo(AnalyzerItems, MaxFiles) : disk = Repository(items, ExtraPaths)
    /\ hash_seed \in Perms(AttrNames)
    /\ all_files = SelectSeq(rglob(disk), LAMBDA f : is_file(f, disk) /\ ~in_venv(f))
    /\ py_files = SelectSeq(rglob(disk), LAMBDA f : f.suffix = ".py" /\ ~in_venv(f))
    /\ parsed_py_files = parse_files(py_files, disk)
    /\ clock = 0
    /\ reports = <<>>
    /\ value_calls = <<>>
    /\ written = <<>>
    /\ op = "__init__"
    /\ result = None

\* <Analyzer>().value(...) on the lists of the object.  The methods read the
\* lists and the files and keep nothing: the lists are the caller's after the
\* call as before it.
Do_value(analyzer) ==
    /\ Len(value_calls) < MaxValueCalls
    /\ result' = value(analyzer, parsed_py_files, py_files, all_files, disk, hash_seed)
    /\ op' = analyzer
    /\ UNCHANGED <<parsed_py_files, py_files, all_files, disk, hash_seed, clock, reports,
                   written>>
    /\ value_calls' = Append(value_calls,
                             [analyzer |-> analyzer, returned |-> result',
                              parsed_py_files |-> parsed_py_files',
                              py_files |-> py_files', all_files |-> all_files'])

NextAnalyzers == \E a \in DOMAIN Analyzers : Do_value(Analyzers[a])

SpecAnalyzers == InitAnalyzers /\ [][NextAnalyzers]_vars

in_cycle(trees, name) ==
    \E b \in declared_bases(trees, name) :
        b = name \/ name \in declared_bases(trees, b)

\* C25: calculate_depth_of_inheritance_tree returns, and returns a value of
\* at least 1 for every non-empty set of classes, inheritance graphs with
\* cycles included: every class is entered once and never again, and a class
\* that has no depth yet when it is met as a base contributes depth 0, so
\* the depth is at most the number of classes and a class that only names
\* itself has depth 1.
C25_DepthWithCycles ==
    (DITDone /\ class_nodes(parsed_py_files) # <<>>) =>
        LET names == dit_class_names(parsed_py_files)
            entered == dit_entered(parsed_py_files)
        IN  /\ result >= 1
            /\ result <= Cardinality(names)
            /\ Range(entered) = names
            /\ Len(entered) = Cardinality(names)
            /\ (Cardinality(names) = 1 /\ \A n \in names : in_cycle(parsed_py_files, n))
                   => result = 1

\* Two classes that name each other, A(B) and B(A), and nothing else.
C25_Witness ==
    /\ DITDone
    /\ dit_class_names(parsed_py_files) = {"A", "B"}
    /\ declared_bases(parsed_py_files, "A") = {"B"}
    /\ declared_bases(parsed_py_files, "B") = {"A"}
    /\ result = 2

(***************************************************************************)
(* Functions of one name: up to MaxMethods functions and classes with a    *)
(* method, cut into up to MaxFiles files.                                  *)
(***************************************************************************)
IfStmt == If(X, <<Pass>>, <<>>)

NamedItems ==
    {FunctionDef("run", <<>>, <<Pass>>),
     FunctionDef("run", <<>>, <<IfStmt>>),
     ClassDef("A", <<>>, <<FunctionDef("__init__", <<>>, <<Pass>>)>>),
     ClassDef("B", <<>>, <<FunctionDef("__init__", <<>>, <<IfStmt>>)>>),
     ClassDef("C", <<>>, <<FunctionDef("run", <<>>, <<While(X, <<IfStmt>>, <<>>)>>)>>)}

\* The ways to cut a sequence of module-level statements into f files, in order.
RECURSIVE ModuleSplits(_, _)
ModuleSplits(items, f) ==
    IF f = 0 THEN (IF items = <<>> THEN {<<>>} ELSE {})
    ELSE UNION {{<<SourceFile(Module(SubSeq(items, 1, k)))>> \o rest :
                    rest \in ModuleSplits(SubSeq(items, k + 1, Len(items)), f - 1)} :
                k \in 0..Len(items)}

InitNames ==
    /\ \E items \in SeqsUpTo(NamedItems, MaxMethods) : \E f \in 0..MaxFiles :
           \E files \in ModuleSplits(items, f) :
               /\ py_files = SubSeq(PathPool, 1, f)
               /\ disk = [p \in {PathPool[i] : i \in 1..f} |->
                             files[CHOOSE i \in 1..f : PathPool[i] = p]]
    /\ parsed_py_files = <<>>
    /\ hash_seed = DefaultSeed
    /\ op = "init"
    /\ result = None
    /\ NoReport

NextNames == Do_calculate_cyclomatic_complexity

SpecNames == InitNames /\ [][NextNames]_vars

\* The function nodes of the file, in the order ast.walk yields them.
functions_of(path) == SelectSeq(ast_walk(disk[path].tree), IsFunction)

\* The function of that name that ast.walk yields after every other one.
last_function(path, name) ==
    LET funcs == functions_of(path)
        at == CHOOSE i \in DOMAIN funcs :
                  /\ funcs[i].name = name
                  /\ \A j \in DOMAIN funcs : funcs[j].name = name => j <= i
    IN  funcs[at]

\* C26: the result of calculate_cyclomatic_complexity has one entry per file
\* and, in it, exactly one entry per distinct function name of that file;
\* where functions of a file share a name the entry holds the complexity of
\* the one visited last, and the functions of another file have no part in it.
C26_OneEntryPerFunctionName ==
    CCDone =>
        /\ DOMAIN result = Range(py_files)
        /\ \A path \in Range(py_files) :
               /\ DOMAIN result[path] = {f.name : f \in Range(functions_of(path))}
               /\ \A name \in DOMAIN result[path] :
                      result[path][name] = visit(last_function(path, name), 1)

\* Two files; the first holds run at module level twice and run in a class,
\* whose complexity 3 is the one kept; the second holds a run of complexity 1.
C26_Witness ==
    /\ CCDone
    /\ Len(py_files) = 2
    /\ Len(functions_of(py_files[1])) >= 2
    /\ \A i \in DOMAIN functions_of(py_files[1]) : functions_of(py_files[1])[i].name = "run"
    /\ visit(functions_of(py_files[1])[1], 1) = 2
    /\ result[py_files[1]] = [n \in {"run"} |-> 3]
    /\ result[py_files[2]] = [n \in {"run"} |-> 1]

(***************************************************************************)
(* ExtPythonStats.print and main()                                         *)
(***************************************************************************)
KeyError == [kind |-> "KeyError"]
FileNotFoundError == [kind |-> "FileNotFoundError"]

\* del d[k]
DictDel(d, k) ==
    [keys |-> SelectSeq(d.keys, LAMBDA x : x # k),
     val |-> [x \in DOMAIN d.val \ {k} |-> d.val[x]]]

\* str(value): the text of a value, which tells the values apart.
str(v) == [str |-> v]

\* As print_remaining, the entry staying in the caller's mapping.
print_remaining_keeping(report_data) == report_data

\* report_data after `del report_data["worktime"]`.
print_remaining(report_data) == DictDel(report_data, "worktime")

\* The document print() writes: worktime, the date, the path of the
\* repository and one metric element per entry that is left, in the
\* mapping's order.
print_xml(report_data, now) ==
    LET left == print_remaining(report_data)
    IN  [worktime |-> <<str(report_data.val["worktime"]), " secs">>,
         report_time |-> now,
         repository_path |-> ".",
         metrics |-> [i \in DOMAIN left.keys |->
                         [name |-> str(left.keys[i]), text |-> str(left.val[left.keys[i]])]]]

\* The names of the files print() is asked to write.
ReportFilenames == {"result_python_extended_stats.xml"}

\* stats.print(filename, report_data) on the mapping the caller holds, which
\* the model keeps in result: the lookup of 'worktime' raises KeyError before
\* anything is written, or the entry is deleted and the file is written.
Do_print ==
    /\ op \in {"report", "print", "mapping"}
    /\ Len(written) < MaxReports
    /\ IF "worktime" \in Range(result.keys)
       THEN /\ \E filename \in ReportFilenames :
                   written' = Append(written, [filename |-> filename,
                                               text |-> print_xml(result, clock)])
            /\ result' = print_remaining(result)
            /\ op' = "print"
       ELSE /\ op' = "raise"
            /\ UNCHANGED <<result, written>>
    /\ UNCHANGED <<parsed_py_files, py_files, all_files, disk, hash_seed, clock, reports,
                   value_calls>>

\* The analyzers whose value() opens the source files.
opens_files(analyzer) ==
    analyzer \in {"AverageBasedMetrics", "ReadabilityAndFormattingMetrics",
                  "CodeComplexityAndQualityMetrics"}

\* How many analyzers report() gets a mapping from before one of them raises:
\* open() raises FileNotFoundError on a source file that is no longer there.
returned_analyzers(files, fs) ==
    IF \A path \in Range(files) : path \in DOMAIN fs THEN Len(Analyzers)
    ELSE (CHOOSE k \in DOMAIN Analyzers :
              /\ opens_files(Analyzers[k])
              /\ \A j \in 1..(k - 1) : ~opens_files(Analyzers[j])) - 1

\* A source file is removed while the tool runs, between the constructor and
\* report().
Do_unlink ==
    /\ op = "__init__"
    /\ \E path \in Range(py_files) \cap DOMAIN disk :
           disk' = [p \in DOMAIN disk \ {path} |-> disk[p]]
    /\ UNCHANGED <<parsed_py_files, py_files, all_files, hash_seed, op, result, clock,
                   reports, value_calls, written>>

\* stats.report() as main() calls it: value_calls lists the analyzers that
\* returned; an exception of an analyzer leaves report() and main().
Do_main_report ==
    /\ op = "__init__"
    /\ Len(reports) < MaxReports
    /\ LET k == returned_analyzers(py_files, disk)
       IN  /\ value_calls' =
                  [i \in 1..k |->
                      [analyzer |-> Analyzers[i],
                       returned |-> value(Analyzers[i], parsed_py_files, py_files,
                                          all_files, disk, hash_seed)]]
           /\ IF k = Len(Analyzers)
              THEN /\ \E elapsed \in 0..MaxElapsed : clock' = clock + elapsed
                   /\ result' = report(clock, clock', parsed_py_files, py_files,
                                       all_files, disk, hash_seed)
                   /\ reports' = Append(reports, result')
                   /\ op' = "report"
              ELSE /\ result' = FileNotFoundError
                   /\ op' = "raise"
                   /\ UNCHANGED <<clock, reports>>
    /\ UNCHANGED <<parsed_py_files, py_files, all_files, disk, hash_seed, written>>

\* main(): ExtPythonStats(path), then stats.report(), then stats.print(...).
NextMain ==
    \/ op = "start" /\ Do_ExtPythonStats
    \/ Do_unlink
    \/ Do_main_report
    \/ op = "report" /\ Do_print

SpecMain == InitReport /\ [][NextMain]_vars

\* The mapping the analyzers' mappings merge into, in the order they returned.
RECURSIVE merged_values(_)
merged_values(k) ==
    IF k = 0 THEN EmptyDict
    ELSE DictMerge(merged_values(k - 1), value_calls[k].returned)

\* C27: a report file is written only after every source file was parsed and
\* all nine analyzers have returned, and it holds their merged mappings; a run
\* whose constructor exits on a file that does not parse, or in which an
\* analyzer raises, writes no report file.
C27_ReportWrittenLast ==
    /\ written # <<>> =>
           /\ op = "print"
           /\ Len(written) = 1
           /\ py_files = SelectSeq(rglob(disk), LAMBDA f : f.suffix = ".py" /\ ~in_venv(f))
           /\ Len(parsed_py_files) = Len(py_files)
           /\ \A i \in DOMAIN py_files : parsed_py_files[i] = disk[py_files[i]].tree
                                         /\ parsed_py_files[i] # SyntaxError
           /\ [i \in DOMAIN value_calls |-> value_calls[i].analyzer] = Analyzers
           /\ Len(reports) = 1
           /\ written[1].text.metrics =
                  LET merged == merged_values(Len(value_calls))
                  IN  [i \in DOMAIN merged.keys |->
                          [name |-> str(merged.keys[i]),
                           text |-> str(merged.val[merged.keys[i]])]]
    /\ op \in {"start", "__init__", "exit", "raise", "report"} => written = <<>>
    /\ (\E path \in Range(py_files) : path \in DOMAIN disk /\ disk[path].tree = SyntaxError)
           => op \in {"start", "exit"}
    /\ (op = "raise") => Len(value_calls) < Len(Analyzers)

\* A repository of two source files beside files that are no source: the
\* report of the run is written.
C27_Witness ==
    /\ op = "print"
    /\ Len(py_files) = 2
    /\ Len(all_files) > 2
    /\ Len(written) = 1
    /\ Len(written[1].text.metrics) > Len(Analyzers)

(***************************************************************************)
(* print() called again, and on mappings other than a report.              *)
(***************************************************************************)
\* Mappings a caller builds to hand to print().
PrintMappings ==
    {EmptyDict,
     DictFrom(<< <<"Number of Classes", 1>> >>),
     DictFrom(<< <<"Number of Classes", 1>>, <<"LCOM", EmptyDict>> >>),
     DictFrom(<< <<"worktime", 0>> >>),
     DictFrom(<< <<"Number of Classes", 1>>, <<"worktime", 1>>, <<"LCOM", EmptyDict>> >>)}

\* The caller builds a mapping instead of calling report().
Do_mapping ==
    /\ op = "__init__"
    /\ result' \in PrintMappings
    /\ op' = "mapping"
    /\ UNCHANGED <<parsed_py_files, py_files, all_files, disk, hash_seed, clock, reports,
                   value_calls, written>>

NextPrint ==
    \/ op = "start" /\ Do_ExtPythonStats
    \/ op = "__init__" /\ Do_report
    \/ Do_mapping
    \/ Do_print

SpecPrint == InitReport /\ [][NextPrint]_vars

has_worktime(d) == "worktime" \in Range(d.keys)

\* C28: print() removes the 'worktime' entry from the mapping it is given and
\* leaves every other entry as it is, in the same order; a mapping without
\* 'worktime' makes it fail before any file is written and stays as it is, so
\* after report() and print() a second print() of the same mapping fails.
C28_PrintRemovesWorktime ==
    /\ [](op = "print" => ~has_worktime(result))
    /\ [][(op \in {"report", "print", "mapping"} /\ op' \in {"print", "raise"}) =>
            IF has_worktime(result)
            THEN /\ op' = "print"
                 /\ result'.keys = SelectSeq(result.keys, LAMBDA k : k # "worktime")
                 /\ DOMAIN result'.val = Range(result'.keys)
                 /\ \A k \in Range(result'.keys) : result'.val[k] = result.val[k]
                 /\ Len(written') = Len(written) + 1
            ELSE /\ op' = "raise"
                 /\ written' = written
                 /\ result' = result]_vars

\* report(), print(), and a second print() of the same mapping, which failed:
\* one file is written and the mapping is the report without 'worktime'.
C28_Witness ==
    /\ op = "raise"
    /\ Len(reports) = 1
    /\ Len(written) = 1
    /\ ~has_worktime(result)
    /\ result.keys = SelectSeq(reports[1].keys, LAMBDA k : k # "worktime")
    /\ Len(py_files) = 2

(***************************************************************************)
(* The sign of the numbers of a report.                                    *)
(***************************************************************************)
\* The metrics whose value is an int.
WholeMetrics ==
    {"Number of Classes", "Number of Methods", "Number of Static Methods",
     "Maximum Number of Method Parameters", "Maximum Method Length",
     "Number of Decorators", "Number of Public Constants in File",
     "Number of Libraries", "Number of Files in the Project",
     "Depth of the Project File System Tree",
     "Number of Functions or Methods Without Docstrings",
     "Number of Functions or Methods Without Typing", "Number of Context Managers",
     "Number of Handled Exceptions", "Depth Of Inheritance Tree",
     "Maximum py Line Length", "Lines of Code", "Number of pass keywords"}

\* The metrics whose value is a quotient.
MeanMetrics ==
    {"Average Number of Lines per File", "Average Number of Lines per Method",
     "Average Number of Methods per Class",
     "Average Number of Parameters per Method/Function", "Duplication Percentage",
     "Average Line Length"}

\* C29: every numeric value of the report is at least 0 for every repository,
\* one without source files or with only empty source files included; the
\* maximum line length in particular is never negative.
C29_MetricsNonNegative ==
    (op = "report") =>
        /\ \A name \in WholeMetrics : result.val[name] >= 0
        /\ \A name \in MeanMetrics : result.val[name].num >= 0 /\ result.val[name].den > 0
        /\ \A kind \in DOMAIN result.val["Average Identifier Length"] :
               result.val["Average Identifier Length"][kind].num >= 0

(***************************************************************************)
(* Classes of one name: up to MaxMethods classes, a class A declared in    *)
(* three ways (one of them inside a class C) and a class B, in up to       *)
(* MaxFiles files.                                                         *)
(***************************************************************************)
PlainA == ClassDef("A", <<>>, <<Pass>>)

DerivedA ==
    ClassDef("A", <<Name("B")>>,
             <<FunctionDef("run", <<Arg("self")>>,
                           <<Expr(Call(Name("Helper"), <<>>)), Return(Self("x"))>>),
               FunctionDef("stop", <<Arg("self")>>, <<Return(Self("y"))>>)>>)

SameNameClasses ==
    {PlainA, DerivedA, ClassDef("B", <<>>, <<Method("run")>>),
     ClassDef("C", <<Name("B")>>, <<Method("run"), PlainA>>)}

InitSameName ==
    /\ \E classes \in SeqsUpTo(SameNameClasses, MaxMethods) :
           parsed_py_files \in Layouts(classes, MaxFiles)
    /\ py_files = <<>>
    /\ disk = <<>>
    /\ hash_seed \in Perms(AttrNames)
    /\ op = "init"
    /\ result = None
    /\ NoReport

NextSameName ==
    \/ Do_count_coupling_between_objects
    \/ Do_calculate_method_inheritance_factor
    \/ Do_calculate_method_polymorphism_factor
    \/ Do_calculate_lcom

SpecSameName == InitSameName /\ [][NextSameName]_vars

\* What each per-class mapping holds for one class declaration.
per_class_value(method, d) ==
    CASE method = "count_coupling_between_objects" ->
             Cardinality(add_bases_names(d.node)
                         \cup cbo_call_names(d.node, add_module_classes(d.tree)))
      [] method = "calculate_method_inheritance_factor" ->
             method_inheritance_of(d.node, d.tree)
      [] method = "calculate_method_polymorphism_factor" ->
             method_polymorphism_of(d.node, d.tree)
      [] method = "calculate_lcom" ->
             LET methods == lcom_methods(d.node)
             IN  [lcom |-> run_methods_lcom(methods),
                  methods |-> Len(methods),
                  attributes |->
                      list_of_set(UNION {methods[i].attributes : i \in DOMAIN methods},
                                  hash_seed)]

PerClassMethods ==
    {"count_coupling_between_objects", "calculate_method_inheritance_factor",
     "calculate_method_polymorphism_factor", "calculate_lcom"}

\* C30: the mappings of the coupling between objects, the method inheritance
\* factor, the polymorphism factor and LCOM have exactly one entry per
\* distinct class name declared in the repository, and where classes share a
\* name, in one file or in several, the entry holds the value of the class
\* visited last.
C30_OneEntryPerClassName ==
    (op \in PerClassMethods) =>
        /\ DOMAIN result = {c.name : c \in Range(class_nodes(parsed_py_files))}
        /\ \A name \in DOMAIN result :
               result[name] = per_class_value(op, last_class(parsed_py_files, name))

\* Two files that each declare a class A, the first with a base and a call,
\* the second with neither: the one entry for A holds 0, the coupling of the
\* second.
C30_Witness ==
    /\ op = "count_coupling_between_objects"
    /\ parsed_py_files = <<Module(<<DerivedA>>), Module(<<PlainA>>)>>
    /\ per_class_value(op, [node |-> DerivedA, tree |-> parsed_py_files[1]]) = 2
    /\ result = [n \in {"A"} |-> 0]

====
